---- MODULE Spec2Model ----
(***************************************************************************)
(* A model of `jx step create task` (pkg/jx/cmd/step_create_task.go):      *)
(* the lifecycle step compiler (generateTask, generatePipeline,            *)
(* createSteps), the environment injector (modifyEnvVars), the graph       *)
(* builder (applyTask) and the cluster reconciler (applyPipeline).         *)
(*                                                                         *)
(* Conventions.                                                            *)
(*  - A Go string that the code only compares is a TLA+ string.  A Go      *)
(*    string that the code builds or takes apart (step names,              *)
(*    directories, environment values) is a sequence of tokens, each       *)
(*    token a piece of text; "" is << >> and + is \o.  Inputs are          *)
(*    tokenised canonically ("step3" is <<"step", "3">>).  A command       *)
(*    text, which strings.Replace searches, is the sequence of its         *)
(*    characters.                                                          *)
(*  - A Go pointer is a sequence of length 0 (nil) or 1.                   *)
(*  - o is the receiver *StepCreateTaskOptions, with the source's field    *)
(*    names.                                                               *)
(***************************************************************************)
EXTENDS Integers, Sequences, FiniteSets, TLC

VARIABLES
  o,              \* the StepCreateTaskOptions receiver
  pipelineConfig, \* the *jenkinsfile.PipelineConfig handed to generateTask
  cluster,        \* the cluster's resource store
  pc,             \* where the running operation stands
  err,            \* the error the operation returned ("" for nil)
  ap,             \* applyPipeline's frame: arguments and locals
  calls,          \* the cluster calls issued by the current applyPipeline
  runs,           \* per finished operation, what it produced
  handed,         \* the graph generatePipeline hands to applyPipeline (a pointer)
  container,      \* the container handed to modifyEnvVars
  envIn,          \* the environment the container was given at first
  executed,       \* the command texts runStepCommand has run, in order
  host            \* the host of the version commands: the command that
                  \* fails, and the VERSION file the commands leave

vars == <<o, pipelineConfig, cluster, pc, err, ap, calls, runs, handed, container, envIn,
          executed, host>>

(***************************************************************************)
(* Bounds of the model.                                                    *)
(***************************************************************************)
MaxEnvLen == 2
MaxInject == 2
MaxStages == 2
MaxDuration == 2
MaxApply == 2
\* the steps of a pipeline configuration, over all its stages
MaxNodes == 3
\* the times generateTask is called on the same options
MaxCompile == 2

(***************************************************************************)
(* Pointers and strings.                                                   *)
(***************************************************************************)
Nil == << >>
Ptr(x) == << x >>
Deref(p) == p[1]

\* a compared string as a built string
ToStr(s) == IF s = "" THEN << >> ELSE << s >>

Range(s) == { s[i] : i \in 1..Len(s) }

(***************************************************************************)
(* The options a run starts from: the flag defaults of NewCmdStepCreateTask *)
(* and the zero values of the fields no flag sets.  The retry duration is   *)
(* in seconds, 30 unless the flag gives another; a failed attempt to       *)
(* create the run takes one second.                                        *)
(***************************************************************************)
NoResults ==
  [ Pipeline |-> Nil, Tasks |-> << >>, Resources |-> << >>,
    PipelineRun |-> Nil, Structure |-> Nil, PipelineParams |-> << >> ]

DefaultGitInfo ==
  [ Organisation |-> "acme", Name |-> "app",
    CloneURL |-> "https://git/acme/app.git", HttpsURL |-> "https://git/acme/app" ]

DefaultOptions ==
  [ PipelineKind |-> "release", Context |-> "", NoApply |-> FALSE,
    Trigger |-> "manual", ServiceAccount |-> "tekton-bot",
    TargetPath |-> "", SourceName |-> "source", CustomImage |-> "",
    DockerRegistry |-> "", Branch |-> "", Revision |-> << >>,
    ViewSteps |-> FALSE, NoSetVersion |-> FALSE, Duration |-> 30,
    PodTemplates |-> [ n \in {} |-> Nil ], MissingPodTemplates |-> {},
    stepCounter |-> 0, gitInfo |-> Nil, buildNumber |-> "1",
    labels |-> [ n \in {} |-> "" ], Results |-> NoResults ]

\* a host on which no command fails and no VERSION file is left
NoHost == [ fails |-> 0, fault |-> "", file |-> Nil ]

(***************************************************************************)
(* Environment injection.                                                  *)
(***************************************************************************)
\* kube.GetSliceEnvVar: the position of the first variable called name,
\* 0 for nil.
GetSliceEnvVar(envVars, name) ==
  IF \E i \in 1..Len(envVars) : envVars[i].Name = name
  THEN CHOOSE i \in 1..Len(envVars) :
         /\ envVars[i].Name = name
         /\ \A j \in 1..(i - 1) : envVars[j].Name # name
  ELSE 0

\* strings.ToUpper on the parameter names the program declares.
ToUpper(name) ==
  CASE name = "version" -> "VERSION"
    [] name = "preview_version" -> "PREVIEW_VERSION"
    [] OTHER -> name

EnvVar(name, value) == [ Name |-> name, Value |-> value ]

\* one `if cond && kube.GetSliceEnvVar(envVars, name) == nil { append }`
AppendEnvVar(envVars, cond, name, value) ==
  IF cond /\ GetSliceEnvVar(envVars, name) = 0
  THEN Append(envVars, EnvVar(name, value))
  ELSE envVars

\* the loop over o.Results.PipelineParams, from parameter i on
RECURSIVE AppendParamEnvVars(_, _, _)
AppendParamEnvVars(envVars, params, i) ==
  IF i > Len(params) THEN envVars
  ELSE AppendParamEnvVars(
         AppendEnvVar(envVars, TRUE, ToUpper(params[i].Name),
                      << "${inputs.params." >> \o ToStr(params[i].Name) \o << "}" >>),
         params, i + 1)

\* A plausible slip: only the first variable of the reserved name is dropped.
WithoutReservedOnce(envVars) ==
  IF GetSliceEnvVar(envVars, "JENKINS_URL") = 0 THEN envVars
  ELSE SubSeq(envVars, 1, GetSliceEnvVar(envVars, "JENKINS_URL") - 1)
       \o SubSeq(envVars, GetSliceEnvVar(envVars, "JENKINS_URL") + 1, Len(envVars))

\* modifyEnvVars: its first loop, over container.Env
WithoutReserved(envVars) == SelectSeq(envVars, LAMBDA e : e.Name # "JENKINS_URL")

\* A plausible slip: the derived variables are appended without looking
\* whether the step declares them.
modifyEnvVarsUnchecked(c, opt) ==
  [ c EXCEPT !.Env =
      SelectSeq(c.Env, LAMBDA e : e.Name # "JENKINS_URL")
        \o << EnvVar("DOCKER_REGISTRY", ToStr(opt.DockerRegistry)),
              EnvVar("JX_BATCH_MODE", << "true" >>) >> ]

\* A plausible slip: the batch-mode flag is put first instead of last.
modifyEnvVarsFlagFirst(c, opt) ==
  [ c EXCEPT !.Env =
      AppendEnvVar(
        AppendEnvVar(SelectSeq(c.Env, LAMBDA e : e.Name # "JENKINS_URL"),
                     TRUE, "JX_BATCH_MODE", << "true" >>),
        TRUE, "DOCKER_REGISTRY", ToStr(opt.DockerRegistry)) ]

modifyEnvVars(c, opt) ==
  LET e0 == WithoutReserved(c.Env)
      e1 == AppendEnvVar(e0, TRUE, "DOCKER_REGISTRY", ToStr(opt.DockerRegistry))
      e2 == AppendEnvVar(e1, opt.PipelineKind # "", "PIPELINE_KIND",
                         ToStr(opt.PipelineKind))
      e3 == AppendEnvVar(e2, opt.Context # "", "PIPELINE_CONTEXT",
                         ToStr(opt.Context))
      hasGit == opt.gitInfo # Nil
      g == IF hasGit THEN Deref(opt.gitInfo) ELSE DefaultGitInfo
      branch == opt.Branch
      e4 == AppendEnvVar(e3, hasGit /\ g.CloneURL # "", "SOURCE_URL",
                         ToStr(g.CloneURL))
      e5 == AppendEnvVar(e4, hasGit /\ g.Organisation # "", "REPO_OWNER",
                         ToStr(g.Organisation))
      e6 == AppendEnvVar(e5, hasGit /\ g.Name # "", "REPO_NAME", ToStr(g.Name))
      e7 == AppendEnvVar(e6,
                         hasGit /\ g.Organisation # "" /\ g.Name # "" /\ branch # "",
                         "JOB_NAME",
                         ToStr(g.Organisation) \o << "/" >> \o ToStr(g.Name)
                           \o << "/" >> \o ToStr(branch))
      e8 == AppendEnvVar(e7, branch # "", "BRANCH_NAME", ToStr(branch))
      e9 == AppendEnvVar(e8, TRUE, "JX_BATCH_MODE", << "true" >>)
  IN [ c EXCEPT !.Env = AppendParamEnvVars(e9, opt.Results.PipelineParams, 1) ]

\* a container with nothing set
NoContainer ==
  [ Name |-> << >>, Image |-> "", Env |-> << >>, VolumeMounts |-> << >>,
    Command |-> << >>, Args |-> << >>, WorkingDir |-> << >> ]

(***************************************************************************)
(* The objects of the generated graph.                                     *)
(***************************************************************************)
\* syntax.TektonAPIVersion
TektonAPIVersion == "tekton.dev/v1alpha1"

\* the dev namespace KubeClientAndDevNamespace returns
DevNamespace == "jx"

NoLabels == [ n \in {} |-> "" ]

\* syntax.DefaultFromYamlCRDLabels
DefaultFromYamlCRDLabels == ("jenkins.io/pipelineFromYaml" :> "true")

Param(name, value) == [ Name |-> name, Value |-> value ]

\* strings.ToLower on the tokens of the model's names
ToLower(token) == IF token = "PR" THEN "pr" ELSE token

\* kube.ToValidName: lower case; the model's names hold no other character
\* that it replaces
ToValidName(name) == [ i \in 1..Len(name) |-> ToLower(name[i]) ]

\* tekton.PipelineResourceName: organisation-name-branch[-context], made a
\* valid name
PipelineResourceName(gitInfo, branch, context) ==
  ToValidName(ToStr(Deref(gitInfo).Organisation) \o << "-" >>
                \o ToStr(Deref(gitInfo).Name) \o << "-" >> \o branch
                \o (IF context = "" THEN << >> ELSE << "-", context >>))

generateSourceRepoResource(opt, name, fromYaml) ==
  IF opt.gitInfo # Nil /\ Deref(opt.gitInfo).HttpsURL # ""
  THEN Ptr([ APIVersion |-> TektonAPIVersion, Kind |-> "PipelineResource",
             Name |-> name,
             Labels |-> IF fromYaml THEN DefaultFromYamlCRDLabels ELSE NoLabels,
             Spec |-> [ Type |-> "git",
                        Params |-> << Param("revision", opt.Revision),
                                      Param("url", ToStr(Deref(opt.gitInfo).HttpsURL)) >> ] ])
  ELSE Nil

generateTempOrderingResource ==
  [ APIVersion |-> TektonAPIVersion, Kind |-> "PipelineResource",
    Name |-> << "temp-ordering-resource" >>,
    Labels |-> DefaultFromYamlCRDLabels,
    Spec |-> [ Type |-> "image", Params |-> << Param("url", << "alpine" >>) >> ] ]

\* setBuildValues with no custom label
setBuildValues(opt, fromYaml) ==
  (IF opt.gitInfo # Nil
   THEN ("owner" :> Deref(opt.gitInfo).Organisation) @@ ("repo" :> Deref(opt.gitInfo).Name)
   ELSE NoLabels)
    @@ ("branch" :> opt.Branch)
    @@ (IF fromYaml THEN DefaultFromYamlCRDLabels ELSE NoLabels)

\* generatePipeline: the task parameters declared for the pipeline parameters
TaskParams(opt) ==
  [ i \in 1..Len(opt.Results.PipelineParams) |->
      LET name == opt.Results.PipelineParams[i].Name
      IN [ Name |-> name,
           Description |->
             IF name = "version"
             THEN "the version number for this release which is used as a tag on docker images"
             ELSE IF name = "preview_version"
             THEN "the version number for this preview which is used as a tag on docker images"
             ELSE "",
           Default |-> "" ] ]

\* generatePipeline: the one Task of the build-pack path, with its git source
\* input
BuildPackTask(opt, steps, volumes) ==
  [ APIVersion |-> TektonAPIVersion, Kind |-> "Task",
    Name |-> PipelineResourceName(opt.gitInfo, ToStr(opt.Branch), opt.Context),
    Namespace |-> "", Labels |-> opt.labels, OwnerReferences |-> << >>,
    Spec |-> [ Steps |-> steps, Volumes |-> volumes,
               Inputs |-> [ Params |-> TaskParams(opt),
                            Resources |-> << [ Name |-> opt.SourceName, Type |-> "git",
                                               TargetPath |-> opt.TargetPath ] >> ] ] ]

\* applyTask: the graph it hands to applyPipeline
applyTask(opt, task) ==
  LET gitInfo == Deref(opt.gitInfo)
      resourceName == ToValidName(ToStr(gitInfo.Organisation) \o << "-" >>
                                    \o ToStr(gitInfo.Name) \o << "-" >>
                                    \o ToStr(opt.Branch))
      resource == generateSourceRepoResource(opt, resourceName, FALSE)
      pipelineResources == IF resource # Nil THEN << resource >> ELSE << >>
      resources ==
        IF resource # Nil
        THEN << [ Name |-> Deref(resource).Name, Type |-> Deref(resource).Spec.Type ] >>
        ELSE << >>
      taskInputResources ==
        IF resource # Nil
        THEN << [ Name |-> opt.SourceName, Resource |-> Deref(resource).Name ] >>
        ELSE << >>
      tasks == << [ Name |-> "build",
                    Resources |-> [ Inputs |-> taskInputResources ],
                    TaskRef |-> [ Name |-> task.Name, Kind |-> "Task",
                                  APIVersion |-> task.APIVersion ],
                    Params |-> opt.Results.PipelineParams ] >>
      pipeline == [ APIVersion |-> "", Kind |-> "", UID |-> "", Namespace |-> "",
                    Labels |-> NoLabels,
                    Name |-> PipelineResourceName(opt.gitInfo, ToStr(opt.Branch),
                                                  opt.Context),
                    Spec |-> [ Resources |-> resources, Tasks |-> tasks ] ]
  IN [ pipeline |-> pipeline, tasks |-> << task >>,
       resources |-> pipelineResources, structure |-> Nil ]

(***************************************************************************)
(* Text helpers.                                                           *)
(***************************************************************************)
\* strings.Replace(s, old, new, n): the first n occurrences, all of them when
\* n < 0, left to right and not overlapping: the leftmost occurrence is
\* replaced, and the search goes on in the text after it
RECURSIVE Replace(_, _, _, _)
Replace(s, old, new, n) ==
  LET hits == { i \in 1..(Len(s) - Len(old) + 1) : SubSeq(s, i, i + Len(old) - 1) = old }
  IN IF n = 0 \/ hits = {} THEN s
     ELSE LET first == CHOOSE i \in hits : \A k \in hits : i <= k
          IN SubSeq(s, 1, first - 1) \o new
               \o Replace(SubSeq(s, first + Len(old), Len(s)), old, new, n - 1)

\* the text of a command, character by character: a command is held as the
\* sequence of its characters, the empty command as << >>
Chars(s) == [ i \in 1..Len(s) |-> SubSeq(s, i, i) ]

\* the text the old pipelines set the version with, line 984; a string of the
\* model cannot hold a backquote, so each of the two backquotes of the text
\* is written as a quote, a character no other text of the model holds
ExportText == "export VERSION='cat VERSION' && "

Digits == << "0", "1", "2", "3", "4", "5", "6", "7", "8", "9" >>

\* strconv.Itoa of a natural number
RECURSIVE Itoa(_)
Itoa(n) ==
  IF n < 10 THEN << Digits[n + 1] >>
  ELSE Itoa(n \div 10) \o << Digits[(n % 10) + 1] >>

\* strings.HasPrefix(dir, "./")
HasDotSlashPrefix(dir) == Len(dir) >= 2 /\ dir[1] = "." /\ dir[2] = "/"

\* strings.TrimPrefix(dir, ".")
TrimDotPrefix(dir) == IF Len(dir) >= 1 /\ dir[1] = "." THEN Tail(dir) ELSE dir

\* filepath.IsAbs
IsAbs(path) == Len(path) >= 1 /\ path[1] = "/"

\* the elements of a path: what stands between its separators
RECURSIVE PathElements(_, _)
PathElements(path, current) ==
  IF path = << >> THEN << current >>
  ELSE IF path[1] = "/" THEN << current >> \o PathElements(Tail(path), << >>)
  ELSE PathElements(Tail(path), Append(current, path[1]))

\* filepath.Clean on the elements: empty and "." elements go, ".." takes the
\* element before it with it (at the root it just goes)
RECURSIVE CleanElements(_, _, _)
CleanElements(elements, kept, rooted) ==
  IF elements = << >> THEN kept
  ELSE LET e == elements[1]
           rest == Tail(elements)
       IN IF e = << >> \/ e = << "." >> THEN CleanElements(rest, kept, rooted)
          ELSE IF e = << ".." >>
          THEN IF kept # << >> /\ kept[Len(kept)] # << ".." >>
               THEN CleanElements(rest, SubSeq(kept, 1, Len(kept) - 1), rooted)
               ELSE IF rooted THEN CleanElements(rest, kept, rooted)
               ELSE CleanElements(rest, Append(kept, e), rooted)
          ELSE CleanElements(rest, Append(kept, e), rooted)

RECURSIVE JoinElements(_)
JoinElements(elements) ==
  IF elements = << >> THEN << >>
  ELSE IF Len(elements) = 1 THEN elements[1]
  ELSE elements[1] \o << "/" >> \o JoinElements(Tail(elements))

\* filepath.Clean
Clean(path) ==
  LET kept == CleanElements(PathElements(path, << >>), << >>, IsAbs(path))
  IN IF IsAbs(path) THEN << "/" >> \o JoinElements(kept)
     ELSE IF kept = << >> THEN << "." >>
     ELSE JoinElements(kept)

\* filepath.Join of two elements: empty elements are ignored, the result is
\* cleaned
Join(a, b) ==
  IF a = << >> /\ b = << >> THEN << >>
  ELSE IF a = << >> THEN Clean(b)
  ELSE IF b = << >> THEN Clean(a)
  ELSE Clean(a \o << "/" >> \o b)

(***************************************************************************)
(* Pod templates and volumes.                                              *)
(***************************************************************************)
\* the container name used when the pipeline configuration names no agent
defaultContainerName == "default"

\* kube.ContainsVolume: by name
ContainsVolume(volumes, volume) ==
  \E i \in 1..Len(volumes) : volumes[i].Name = volume.Name

\* kube.ContainsVolumeMount: by name
ContainsVolumeMount(mounts, mount) ==
  \E i \in 1..Len(mounts) : mounts[i].Name = mount.Name

\* kube.CombineVolumes: the volumes of more that volumes does not hold yet
RECURSIVE CombineVolumes(_, _)
CombineVolumes(volumes, more) ==
  IF more = << >> THEN volumes
  ELSE CombineVolumes(IF ContainsVolume(volumes, more[1]) THEN volumes
                      ELSE Append(volumes, more[1]),
                      Tail(more))

PodInfoVolume ==
  [ Name |-> "podinfo",
    DownwardAPI |-> << [ Path |-> "labels", FieldPath |-> "metadata.labels" ] >> ]

PodInfoMount == [ Name |-> "podinfo", MountPath |-> "/etc/podinfo", ReadOnly |-> TRUE ]

\* A plausible slip: the volume is added without the look for its name.
modifyVolumesAlways(c, volumes) == Append(volumes, PodInfoVolume)

\* modifyVolumes: the volumes it returns
modifyVolumes(c, volumes) ==
  IF ~ContainsVolume(volumes, PodInfoVolume) THEN Append(volumes, PodInfoVolume)
  ELSE volumes

\* modifyVolumes: the container it leaves
modifyVolumeMounts(c) ==
  IF ~ContainsVolumeMount(c.VolumeMounts, PodInfoMount)
  THEN [ c EXCEPT !.VolumeMounts = Append(@, PodInfoMount) ]
  ELSE c

(***************************************************************************)
(* The lifecycle step compiler.                                            *)
(***************************************************************************)
\* replaceCommandText: every escaped dollar, then the first export text,
\* then every read of a VERSION file, each on the text the step before left
replaceCommandText(step) ==
  LET unescaped == Replace(step.Command, Chars("\\$"), Chars("$"), -1)
      unexported == Replace(unescaped, Chars(ExportText), << >>, 1)
      a1 == Replace(unexported, Chars("$(cat VERSION)"), Chars("${VERSION}"), -1)
      a2 == Replace(a1, Chars("$(cat ../VERSION)"), Chars("${VERSION}"), -1)
  IN Replace(a2, Chars("$(cat ../../VERSION)"), Chars("${VERSION}"), -1)

\* getWorkspaceDir
getWorkspaceDir(opt) == Join(<< "/", "workspace" >>, ToStr(opt.SourceName))

\* what createSteps returns and leaves in the options: the steps, the
\* volumes, the outcome ("ok", an error, or "panic") and the counter and the
\* missing-template set
StepsResult(steps, volumes, outcome, st) ==
  [ steps |-> steps, volumes |-> volumes, outcome |-> outcome, st |-> st ]

\* A plausible slip: the counter is read and not advanced.
NextCounterStuck(st) == st.stepCounter

\* createSteps: o.stepCounter++
NextCounter(st) == st.stepCounter + 1

\* createSteps: the name of a step that has none of its own
DefaultStepName(counter) == << "step" >> \o Itoa(1 + counter)

\* A plausible slip: a name with no pod template is not recorded.
MissingAfterUnrecorded(opt, st, containerName) == st.MissingPodTemplates

\* createSteps: the missing-template set after the look for the pod template
MissingAfter(opt, st, containerName) ==
  IF containerName \in DOMAIN opt.PodTemplates THEN st.MissingPodTemplates
  ELSE st.MissingPodTemplates \cup { containerName }

\* createSteps, the part under `if step.Command != ""`: one compiled step
CompileStep(opt, step, containerName0, dir, prefixPath, st) ==
  LET containerName == IF containerName0 = "" THEN defaultContainerName
                       ELSE containerName0
      found == containerName \in DOMAIN opt.PodTemplates
      st1 == [ st EXCEPT !.MissingPodTemplates = MissingAfter(opt, st, containerName) ]
      usable == found \/ defaultContainerName \in DOMAIN opt.PodTemplates
      podTemplate == IF found THEN opt.PodTemplates[containerName]
                     ELSE opt.PodTemplates[defaultContainerName]
  IN IF ~usable
     THEN \* podTemplate.Spec on a nil *corev1.Pod
          [ result |-> StepsResult(<< >>, << >>, "panic", st1),
            containerName |-> containerName, dir |-> dir ]
     ELSE IF Len(podTemplate.Spec.Containers) = 0
     THEN [ result |-> StepsResult(<< >>, << >>, "No Containers for pod template", st1),
            containerName |-> containerName, dir |-> dir ]
     ELSE
       LET counter == NextCounter(st1)
           prefix == IF prefixPath # << >> THEN prefixPath \o << "-" >> ELSE << >>
           stepName == IF step.Name = << >> THEN DefaultStepName(counter)
                       ELSE step.Name
           c0 == [ podTemplate.Spec.Containers[1] EXCEPT !.Name = prefix \o stepName ]
           volumes == modifyVolumes(c0, podTemplate.Spec.Volumes)
           c1 == modifyEnvVars(modifyVolumeMounts(c0), opt)
           workspaceDir == getWorkspaceDir(opt)
           dir1 == IF HasDotSlashPrefix(dir) THEN workspaceDir \o TrimDotPrefix(dir)
                   ELSE dir
           dir2 == IF ~IsAbs(dir1) THEN Join(workspaceDir, dir1) ELSE dir1
           c == [ c1 EXCEPT
                    !.Command = << << "/bin/sh" >> >>,
                    !.Image = IF opt.CustomImage # "" THEN opt.CustomImage ELSE @,
                    !.Args = << << "-c" >>, replaceCommandText(step) >>,
                    !.WorkingDir = dir2 ]
       IN [ result |-> StepsResult(<< c >>, volumes, "ok",
                                   [ st1 EXCEPT !.stepCounter = counter ]),
            containerName |-> containerName, dir |-> dir2 ]

\* createSteps up to its loop: the container name and the directory the
\* step settles, and its own compiled step if it has a command
OwnStep(opt, step, containerName0, dir0, prefixPath, st) ==
  LET containerName1 == IF step.Container # "" THEN step.Container ELSE containerName0
      dir1 == IF step.Container # "" THEN dir0
              ELSE IF step.Dir # << >> THEN step.Dir
              ELSE dir0
      dir2 == IF opt.gitInfo # Nil
              THEN Replace(Replace(dir1, << "REPLACE_ME_APP_NAME" >>,
                                   ToStr(Deref(opt.gitInfo).Name), -1),
                           << "REPLACE_ME_ORG" >>,
                           ToStr(Deref(opt.gitInfo).Organisation), -1)
              ELSE dir1
  IN IF step.Command # << >>
     THEN CompileStep(opt, step, containerName1, dir2, prefixPath, st)
     ELSE [ result |-> StepsResult(<< >>, << >>, "ok", st),
            containerName |-> containerName1, dir |-> dir2 ]

RECURSIVE createSteps(_, _, _, _, _, _)
RECURSIVE ChildSteps(_, _, _, _, _, _, _)

\* createSteps, one turn of its loop, with what the child returned
AfterChild(opt, children, i, containerName, dir, prefixPath, acc, child) ==
  IF child.outcome # "ok"
  THEN StepsResult(acc.steps, child.volumes, child.outcome, child.st)
  ELSE ChildSteps(opt, children, i + 1, containerName, dir, prefixPath,
                  StepsResult(acc.steps \o child.steps,
                              CombineVolumes(acc.volumes, child.volumes),
                              "ok", child.st))

\* createSteps, its loop over step.Steps from child i on
ChildSteps(opt, children, i, containerName, dir, prefixPath, acc) ==
  IF i > Len(children) THEN acc
  ELSE AfterChild(opt, children, i, containerName, dir, prefixPath, acc,
                  createSteps(opt, children[i], containerName, dir, prefixPath,
                              acc.st))

\* createSteps after the step's own part: the loop over its children
AfterOwn(opt, children, prefixPath, own) ==
  IF own.result.outcome # "ok" THEN own.result
  ELSE ChildSteps(opt, children, 1, own.containerName, own.dir, prefixPath,
                  own.result)

\* A plausible slip: the children of a step are compiled before the step.
createStepsChildrenFirst(opt, step, containerName0, dir0, prefixPath, st) ==
  LET own == OwnStep(opt, step, containerName0, dir0, prefixPath, st)
      kids == ChildSteps(opt, step.Steps, 1, own.containerName, own.dir,
                         prefixPath, StepsResult(<< >>, << >>, "ok", own.result.st))
  IN IF own.result.outcome # "ok" THEN own.result
     ELSE StepsResult(kids.steps \o own.result.steps,
                      CombineVolumes(kids.volumes, own.result.volumes),
                      kids.outcome, kids.st)

\* createSteps: a step and, after it, its children in their order
createSteps(opt, step, containerName0, dir0, prefixPath, st) ==
  AfterOwn(opt, step.Steps, prefixPath,
           OwnStep(opt, step, containerName0, dir0, prefixPath, st))

(***************************************************************************)
(* generateTask and generatePipeline.                                      *)
(***************************************************************************)
\* A plausible slip: a kind the switch has no case for is taken as known.
PipelineKindsAndOther == { "release", "pullrequest", "feature", "other" }

\* jenkinsfile.PipelineKinds, the kinds generateTask's switch has a case for
PipelineKinds == { "release", "pullrequest", "feature" }

\* a PipelineStep
PipelineStep(name, command, steps) ==
  [ Name |-> name, Command |-> command, Dir |-> << >>, Container |-> "",
    When |-> << >>, Steps |-> steps ]

\* PipelineLifecycles.All: the stages by name, in their fixed order
All(lifecycles) ==
  << [ Name |-> << "setup" >>, Lifecycle |-> lifecycles.Setup ],
     [ Name |-> << "setversion" >>, Lifecycle |-> lifecycles.SetVersion ],
     [ Name |-> << "prebuild" >>, Lifecycle |-> lifecycles.PreBuild ],
     [ Name |-> << "build" >>, Lifecycle |-> lifecycles.Build ],
     [ Name |-> << "postbuild" >>, Lifecycle |-> lifecycles.PostBuild ],
     [ Name |-> << "promote" >>, Lifecycle |-> lifecycles.Promote ] >>

\* the pre-step generateTask puts in front of the release setup stage
GitCredentialsStep ==
  PipelineStep(<< "jx-git-credentials" >>, Chars("jx step git credentials"), << >>)

\* generateTask: the release lifecycles as it leaves them in the configuration
WithGitCredentials(lifecycles) ==
  LET setup == IF lifecycles.Setup = Nil THEN [ Steps |-> << >> ]
               ELSE Deref(lifecycles.Setup)
  IN [ lifecycles EXCEPT
         !.Setup = Ptr([ setup EXCEPT !.Steps = << GitCredentialsStep >> \o @ ]) ]

\* A plausible slip: the setversion stage is left out when NoSetVersion is set.
SkipsStageWhenDisabled(opt, n) ==
  \/ n.Lifecycle = Nil
  \/ opt.NoSetVersion /\ n.Name = << "setversion" >>

\* generatePipeline: the stages its loop leaves out
SkipsStage(opt, n) ==
  \/ n.Lifecycle = Nil
  \/ ~opt.NoSetVersion /\ n.Name = << "setversion" >>

\* generatePipeline: the steps of the stages its loop compiles, each with the
\* name of its stage, in the order of the two nested loops
RECURSIVE StageSteps(_, _, _)
StageSteps(opt, all, i) ==
  IF i > Len(all) THEN << >>
  ELSE (IF SkipsStage(opt, all[i]) THEN << >>
        ELSE [ j \in 1..Len(Deref(all[i].Lifecycle).Steps) |->
                 [ Name |-> all[i].Name, Step |-> Deref(all[i].Lifecycle).Steps[j] ] ])
       \o StageSteps(opt, all, i + 1)

RECURSIVE CompileStages(_, _, _, _, _, _)

\* generatePipeline: one turn of its inner loop, with what createSteps returned
AfterStageStep(opt, todo, i, container0, dir, acc, ss) ==
  IF ss.outcome # "ok"
  THEN StepsResult(acc.steps, acc.volumes, ss.outcome, ss.st)
  ELSE CompileStages(opt, todo, i + 1, container0, dir,
                     StepsResult(acc.steps \o ss.steps,
                                 CombineVolumes(acc.volumes, ss.volumes),
                                 "ok", ss.st))

\* generatePipeline: its loops over the stages and their steps
CompileStages(opt, todo, i, container0, dir, acc) ==
  IF i > Len(todo) THEN acc
  ELSE AfterStageStep(opt, todo, i, container0, dir, acc,
                      createSteps(opt, todo[i].Step, container0, dir, todo[i].Name,
                                  acc.st))

\* the options with the counter and the missing templates a compilation left
WithCompileState(opt, st) ==
  [ opt EXCEPT !.stepCounter = st.stepCounter,
               !.MissingPodTemplates = st.MissingPodTemplates ]

\* generatePipeline on the build-pack path, up to the call of applyTask: the
\* compiled steps and volumes, the outcome, and the counter and the missing
\* templates
CompileLifecycles(opt, config, lifecycles) ==
  CompileStages(opt, StageSteps(opt, All(lifecycles), 1), 1,
                IF opt.CustomImage # "" THEN opt.CustomImage
                ELSE config.Agent.Container,
                getWorkspaceDir(opt),
                StepsResult(<< >>, << >>, "ok",
                            [ stepCounter |-> opt.stepCounter,
                              MissingPodTemplates |-> opt.MissingPodTemplates ]))

(***************************************************************************)
(* The declarative path's graph.  lifecycles.Pipeline.GenerateCRDs makes   *)
(* one task per stage, a pipeline that refers to them and the structure    *)
(* record; generatePipeline back-fills the parameters and adds the two     *)
(* resources.                                                              *)
(***************************************************************************)
StageNames == << "build", "test", "deploy", "promote" >>

\* the text of a name: its tokens one after the other
RECURSIVE Text(_)
Text(name) == IF name = << >> THEN "" ELSE name[1] \o Text(Tail(name))

\* name[len(name)-5:] on a name of fewer than five bytes: the slice bounds
\* are out of range
ShortNamePanics(name) == Len(Text(name)) < 5

\* name[len(name)-5:], the last five characters of the name
ShortName(name) == << SubSeq(Text(name), Len(Text(name)) - 4, Len(Text(name))) >>

\* what lifecycles.Pipeline.GenerateCRDs makes of a declarative pipeline: the
\* pipeline holds its number of stages, and the steps and volumes every
\* generated task is given
GenerateCRDs(opt, name, def) ==
  LET taskName(i) == name \o << "-", StageNames[i] >>
  IN [ pipeline |->
         [ APIVersion |-> TektonAPIVersion, Kind |-> "Pipeline", UID |-> "",
           Namespace |-> "", Labels |-> NoLabels, Name |-> name,
           Spec |-> [ Resources |-> << >>,
                      Tasks |-> [ i \in 1..def.Stages |->
                                    [ Name |-> StageNames[i],
                                      Resources |-> [ Inputs |-> << >> ],
                                      TaskRef |-> [ Name |-> taskName(i), Kind |-> "Task",
                                                    APIVersion |-> TektonAPIVersion ],
                                      Params |-> << >> ] ] ] ],
       tasks |-> [ i \in 1..def.Stages |->
                     [ APIVersion |-> TektonAPIVersion, Kind |-> "Task",
                       Name |-> taskName(i), Namespace |-> "",
                       Labels |-> DefaultFromYamlCRDLabels, OwnerReferences |-> << >>,
                       Spec |-> [ Steps |-> def.Steps, Volumes |-> def.Volumes,
                                  Inputs |-> [ Params |-> << >>, Resources |-> << >> ] ] ] ],
       structure |-> Ptr([ Name |-> name, PipelineRef |-> Ptr(name),
                           PipelineRunRef |-> Nil, OwnerReferences |-> << >> ]) ]

\* generatePipeline's declarative branch, its loop over the steps of a task:
\* every step gets the mount and the environment, and the task the volumes
\* the last call of modifyVolumes returned (none if the task has no step)
InjectedTask(opt, task) ==
  [ task EXCEPT
      !.Spec.Steps = [ i \in 1..Len(task.Spec.Steps) |->
                         modifyEnvVars(modifyVolumeMounts(task.Spec.Steps[i]), opt) ],
      !.Spec.Volumes = IF Len(task.Spec.Steps) = 0 THEN << >>
                       ELSE modifyVolumes(task.Spec.Steps[Len(task.Spec.Steps)],
                                          task.Spec.Volumes),
      !.Spec.Inputs.Params = TaskParams(opt) ]

\* generatePipeline's declarative branch: the graph it hands to applyPipeline
DeclarativeGraph(opt, def) ==
  LET name == ShortName(PipelineResourceName(opt.gitInfo, ToStr(opt.Branch), opt.Context))
      crds == GenerateCRDs(opt, name, def)
      pipeline == [ crds.pipeline EXCEPT
                      !.Spec.Tasks = [ i \in 1..Len(@) |->
                                         IF Len(@[i].Params) = 0
                                         THEN [ @[i] EXCEPT !.Params = opt.Results.PipelineParams ]
                                         ELSE @[i] ] ]
  IN [ pipeline |-> pipeline,
       tasks |-> [ i \in 1..Len(crds.tasks) |-> InjectedTask(opt, crds.tasks[i]) ],
       resources |-> << generateSourceRepoResource(opt, name, TRUE),
                        Ptr(generateTempOrderingResource) >>,
       structure |-> crds.structure ]

\* a declarative pipeline of the given number of stages; Invalid names the
\* validation or generation that rejects it ("" for none)
DeclarativePipeline(stages, steps, volumes) ==
  [ Stages |-> stages, Steps |-> steps, Volumes |-> volumes, Invalid |-> "" ]

\* lifecycles.Pipeline.Validate: a stage with no step is rejected
DefinitionError(def) ==
  IF def.Invalid = "definition" \/ def.Steps = << >>
  THEN "Validation failed for Pipeline"
  ELSE ""

\* the errors of generatePipeline's declarative branch after the name is
\* shortened: of GenerateCRDs, of the generated pipeline's validation and of
\* the validation of a generated task ("" for none)
GenerationError(def) ==
  IF def.Invalid = "generation" THEN "Generation failed for Pipeline"
  ELSE IF def.Invalid = "pipeline" THEN "Validation failed for generated Pipeline"
  ELSE IF def.Invalid = "task" \/ def.Steps = << >>
  THEN "Validation failed for generated Task"
  ELSE ""

\* generateTask: the lifecycles its switch selects
SelectLifecycles(config, kind) ==
  IF kind = "release" THEN config.Pipelines.Release
  ELSE IF kind = "pullrequest" THEN config.Pipelines.PullRequest
  ELSE config.Pipelines.Feature

\* generatePipeline on the build-pack path, from the end of its loops on: the
\* error returned, the steps shown, or the task handed to applyTask
FinishTask(opt, compiled) ==
  /\ o' = WithCompileState(opt, compiled.st)
  /\ IF compiled.outcome = "panic"
     THEN pc' = "panic" /\ handed' = Nil /\ UNCHANGED err
     ELSE IF compiled.outcome # "ok"
     THEN pc' = "failed" /\ err' = compiled.outcome /\ handed' = Nil
     ELSE IF opt.ViewSteps
     THEN pc' = "done" /\ handed' = Nil /\ UNCHANGED err
     ELSE /\ pc' = "start"
          /\ handed' = Ptr(applyTask(WithCompileState(opt, compiled.st),
                                     BuildPackTask(WithCompileState(opt, compiled.st),
                                                   compiled.steps, compiled.volumes)))
          /\ UNCHANGED err

\* generatePipeline on the declarative path, from the name on: the panic of
\* the slice, the error of the generation or of a validation, the steps
\* shown, or the graph handed to applyPipeline
FinishPipeline(opt, def) ==
  /\ o' = opt
  /\ IF ShortNamePanics(PipelineResourceName(opt.gitInfo, ToStr(opt.Branch),
                                             opt.Context))
     THEN pc' = "panic" /\ handed' = Nil /\ UNCHANGED err
     ELSE IF GenerationError(def) # ""
     THEN pc' = "failed" /\ err' = GenerationError(def) /\ handed' = Nil
     ELSE IF opt.ViewSteps
     THEN pc' = "done" /\ handed' = Nil /\ UNCHANGED err
     ELSE pc' = "start" /\ handed' = Ptr(DeclarativeGraph(opt, def)) /\ UNCHANGED err

\* generateTask with the lifecycles of the kind, as its switch leaves them
GeneratePipeline(config, kind, lifecycles) ==
  /\ pipelineConfig' =
       IF kind = "release"
       THEN Ptr([ config EXCEPT !.Pipelines.Release = Ptr(lifecycles) ])
       ELSE pipelineConfig
  /\ IF lifecycles.Pipeline # Nil
     THEN IF DefinitionError(Deref(lifecycles.Pipeline)) # ""
          THEN /\ o' = [ o EXCEPT !.labels = setBuildValues(o, FALSE) ]
               /\ pc' = "failed"
               /\ err' = DefinitionError(Deref(lifecycles.Pipeline))
               /\ handed' = Nil
          ELSE FinishPipeline([ o EXCEPT !.labels = setBuildValues(o, TRUE) ],
                              Deref(lifecycles.Pipeline))
     ELSE FinishTask([ o EXCEPT !.labels = setBuildValues(o, FALSE) ],
                     CompileLifecycles([ o EXCEPT !.labels = setBuildValues(o, FALSE) ],
                                       config, lifecycles))

\* generateTask, with generatePipeline on either path, up to the
\* point where applyTask hands the graph to applyPipeline
GenerateTask ==
  /\ pc = "compile"
  /\ LET config == Deref(pipelineConfig)
         kind == o.PipelineKind
     IN IF kind \notin PipelineKinds
        THEN /\ pc' = "failed"
             /\ err' = "Unknown pipeline kind"
             /\ handed' = Nil
             /\ UNCHANGED <<o, pipelineConfig>>
        ELSE IF kind = "release" /\ config.Pipelines.Release = Nil
        THEN \* lifecycles.Setup on a nil *PipelineLifecycles
             /\ pc' = "panic"
             /\ handed' = Nil
             /\ UNCHANGED <<o, pipelineConfig, err>>
        ELSE IF SelectLifecycles(config, kind) = Nil
        THEN /\ pc' = "done"
             /\ handed' = Nil
             /\ UNCHANGED <<o, pipelineConfig, err>>
        ELSE GeneratePipeline(config, kind,
                              IF kind = "release"
                              THEN WithGitCredentials(Deref(config.Pipelines.Release))
                              ELSE Deref(SelectLifecycles(config, kind)))
  /\ UNCHANGED <<cluster, ap, calls, runs, container, envIn, executed, host>>

(***************************************************************************)
(* The version resolver: setVersionOnReleasePipelines, invokeSteps and     *)
(* runStepCommand.  The host says which command run fails (the n-th, 0 for *)
(* none), whether the look for the VERSION file or its reading fails, and  *)
(* what the file holds once the commands have run (nil if there is none).  *)
(***************************************************************************)
\* the white space strings.TrimSpace cuts off, that of unicode.IsSpace: the
\* blank, tab, line feed, carriage return and form feed, and the characters
\* a string of the model cannot hold, each one token spelled as Go escapes
\* it: the vertical tab, the next line and no-break space of Latin-1, and the
\* other space, line and paragraph separators
Spaces ==
  { " ", "\t", "\n", "\r", "\f", "\\v", "\\u0085", "\\u00A0", "\\u1680",
    "\\u2000", "\\u2001", "\\u2002", "\\u2003", "\\u2004", "\\u2005",
    "\\u2006", "\\u2007", "\\u2008", "\\u2009", "\\u200A", "\\u2028",
    "\\u2029", "\\u202F", "\\u205F", "\\u3000" }

\* strings.TrimSpace
RECURSIVE TrimLeft(_)
TrimLeft(s) == IF s # << >> /\ Head(s) \in Spaces THEN TrimLeft(Tail(s)) ELSE s

RECURSIVE TrimRight(_)
TrimRight(s) ==
  IF s # << >> /\ s[Len(s)] \in Spaces THEN TrimRight(SubSeq(s, 1, Len(s) - 1)) ELSE s

\* A plausible slip: the text of the file is taken as it is.
TrimSpaceNot(s) == s

TrimSpace(s) == TrimRight(TrimLeft(s))

\* what invokeSteps has run so far, and whether it goes on or returns an error
Invoked(log, ok) == [ log |-> log, ok |-> ok ]

\* runStepCommand: the command is run through /bin/sh -c, and the host says
\* whether it fails
runStepCommand(step, ran, h) ==
  IF step.Command = << >> THEN ran
  ELSE Invoked(Append(ran.log, Replace(step.Command, << "\\", "$" >>, << "$" >>, -1)),
               h.fails # Len(ran.log) + 1)

\* A plausible slip: the error of a step's children is not returned.
AfterStepsHeedless(s, ran, h) ==
  IF TrimSpace(s.When) = << "!prow" >> \/ s.Command = << >> THEN Invoked(ran.log, TRUE)
  ELSE runStepCommand(s, Invoked(ran.log, TRUE), h)

\* A plausible slip: the When of a step is not looked at.
AfterStepsWhateverWhen(s, ran, h) ==
  IF ~ran.ok THEN ran
  ELSE IF s.Command = << >> THEN ran
  ELSE runStepCommand(s, ran, h)

\* invokeSteps, one turn of its loop after the step's children were invoked
AfterSteps(s, ran, h) ==
  IF ~ran.ok THEN ran
  ELSE IF TrimSpace(s.When) = << "!prow" >> \/ s.Command = << >> THEN ran
  ELSE runStepCommand(s, ran, h)

\* A plausible slip: a step marked !prow is left out with its children.
RECURSIVE invokeStepsPruned(_, _, _)
invokeStepsPruned(steps, ran, h) ==
  IF steps = << >> \/ ~ran.ok THEN ran
  ELSE invokeStepsPruned(
         Tail(steps),
         IF TrimSpace(steps[1].When) = << "!prow" >> THEN ran
         ELSE AfterSteps(steps[1], invokeStepsPruned(steps[1].Steps, ran, h), h),
         h)

\* invokeSteps: every step after its children, up to the first error
RECURSIVE invokeSteps(_, _, _)
invokeSteps(steps, ran, h) ==
  IF steps = << >> \/ ~ran.ok THEN ran
  ELSE invokeSteps(Tail(steps),
                   AfterSteps(steps[1], invokeSteps(steps[1].Steps, ran, h), h), h)

\* setVersionOnReleasePipelines: its first statement
VersionSkipped(opt) == opt.NoSetVersion \/ opt.ViewSteps

\* setVersionOnReleasePipelines: the error for a release configuration that
\* lacks the stage ("" for none)
VersionStageError(config) ==
  IF config.Pipelines.Release = Nil THEN "no Release pipeline available"
  ELSE IF Deref(config.Pipelines.Release).SetVersion = Nil
  THEN "no SetVersion pipeline on the Release pipeline"
  ELSE ""

\* setVersionOnReleasePipelines: the error of the look for the VERSION file
\* or of its reading ("" for none)
VersionFileError(h) ==
  IF h.fault = "stat" THEN "failed to look for the file VERSION"
  ELSE IF h.file # Nil /\ h.fault = "read" THEN "failed to read file VERSION"
  ELSE ""

\* setVersionOnReleasePipelines: the version it takes from the VERSION file
VersionText(h) == IF h.file = Nil THEN << >> ELSE TrimSpace(Deref(h.file))

\* setVersionOnReleasePipelines: the options with the version it found
WithVersion(opt, version) ==
  IF version # << >>
  THEN [ opt EXCEPT !.Results.PipelineParams = Append(@, Param("version", version)),
                    !.Revision = << "v" >> \o version ]
  ELSE opt

\* A plausible slip: the branch is used even if it is empty.
PreviewBranchAsIs(opt) == ToStr(opt.Branch)

\* setVersionOnReleasePipelines: the branch of a preview version
PreviewBranch(opt) == IF opt.Branch = "" THEN opt.Revision ELSE ToStr(opt.Branch)

\* setVersionOnReleasePipelines: the options with the preview version
WithPreviewVersion(opt) ==
  [ opt EXCEPT !.Results.PipelineParams =
      Append(@, Param("preview_version",
                      << "0.0.0-SNAPSHOT-" >> \o PreviewBranch(opt)
                        \o << "-" >> \o ToStr(opt.buildNumber))) ]

\* A plausible slip: the error of the version resolver is logged and the run
\* goes on.
VersionFailureLogged(message) ==
  /\ pc' = "compile"
  /\ err' = ""

\* Run: `return errors.Wrapf(err, "failed to set the version on release
\* pipelines")`
VersionFailure(message) ==
  /\ pc' = "failed"
  /\ err' = message

\* setVersionOnReleasePipelines for the release kind, with what invokeSteps
\* returned
AfterInvoke(ran) ==
  /\ executed' = ran.log
  /\ IF ~ran.ok
     THEN VersionFailure("command failed") /\ UNCHANGED o
     ELSE IF VersionFileError(host) # ""
     THEN VersionFailure(VersionFileError(host)) /\ UNCHANGED o
     ELSE /\ o' = WithVersion(o, VersionText(host))
          /\ pc' = "compile"
          /\ UNCHANGED err

\* Run from the call of setVersionOnReleasePipelines to the call of
\* generateTask
SetVersion ==
  /\ pc = "version"
  /\ IF VersionSkipped(o)
     THEN pc' = "compile" /\ UNCHANGED <<o, err, executed>>
     ELSE IF o.PipelineKind = "release"
     THEN IF VersionStageError(Deref(pipelineConfig)) # ""
          THEN /\ VersionFailure(VersionStageError(Deref(pipelineConfig)))
               /\ UNCHANGED <<o, executed>>
          ELSE AfterInvoke(invokeSteps(
                 Deref(Deref(Deref(pipelineConfig).Pipelines.Release).SetVersion).Steps,
                 Invoked(<< >>, TRUE), host))
     ELSE /\ o' = WithPreviewVersion(o)
          /\ pc' = "compile"
          /\ UNCHANGED <<err, executed>>
  /\ UNCHANGED <<pipelineConfig, cluster, ap, calls, runs, handed, container, envIn,
                 host>>

\* a host on which no command fails and the VERSION file holds 1.2.3
FileHost == [ fails |-> 0, fault |-> "", file |-> Ptr(<< "1.2.3", "\n" >>) ]

\* the steps of the setversion stage of a release configuration that has one
SetVersionSteps(config) ==
  Deref(Deref(config.Pipelines.Release).SetVersion).Steps

\* setVersionOnReleasePipelines: the error it returns ("" for none)
VersionError(opt, config, h) ==
  IF VersionSkipped(opt) \/ opt.PipelineKind # "release" THEN ""
  ELSE IF VersionStageError(config) # "" THEN VersionStageError(config)
  ELSE IF ~invokeSteps(SetVersionSteps(config), Invoked(<< >>, TRUE), h).ok
  THEN "command failed"
  ELSE VersionFileError(h)

\* setVersionOnReleasePipelines: the commands it has run when it returns
VersionRan(opt, config, h) ==
  IF VersionSkipped(opt) \/ opt.PipelineKind # "release"
     \/ VersionStageError(config) # ""
  THEN << >>
  ELSE invokeSteps(SetVersionSteps(config), Invoked(<< >>, TRUE), h).log

\* setVersionOnReleasePipelines: the options it leaves when it returns nil
Versioned(opt, h) ==
  IF VersionSkipped(opt) THEN opt
  ELSE IF opt.PipelineKind = "release" THEN WithVersion(opt, VersionText(h))
  ELSE WithPreviewVersion(opt)

\* Run at its call of generateTask, from the options and the configuration
\* it has read, on the host h: setVersionOnReleasePipelines has returned nil
AtGenerateTask(opt, config, h) ==
  /\ VersionError(opt, config, h) = ""
  /\ (VersionSkipped(opt) \/ opt.PipelineKind # "release") => h = NoHost
  /\ o = Versioned(opt, h)
  /\ pipelineConfig = Ptr(config)
  /\ executed = VersionRan(opt, config, h)
  /\ host = h

(***************************************************************************)
(* The cluster's resource store, as the client calls act on it.            *)
(***************************************************************************)
NoCluster ==
  [ resources |-> {}, tasks |-> {}, pipelines |-> {}, runs |-> {},
    structures |-> {} ]

Exists(objects, name) == \E x \in objects : x.Name = name

Get(objects, name) == CHOOSE x \in objects : x.Name = name

\* create-or-update by name
Upsert(objects, obj) == { x \in objects : x.Name # obj.Name } \cup { obj }

\* tekton.CreateOrUpdateSourceResource
CreateOrUpdateSourceResource(cl, resource) ==
  [ cl EXCEPT !.resources = Upsert(@, resource) ]

\* tekton.CreateOrUpdateTask
CreateOrUpdateTask(cl, task) == [ cl EXCEPT !.tasks = Upsert(@, task) ]

\* the object tekton.CreateOrUpdatePipeline stores: the labels are set and
\* the server assigns the UID on creation and keeps it on update
StoredPipeline(cl, pipeline, labels) ==
  [ pipeline EXCEPT
      !.Labels = labels,
      !.UID = IF Exists(cl.pipelines, pipeline.Name)
              THEN Get(cl.pipelines, pipeline.Name).UID
              ELSE "uid-1" ]

\* tekton.CreateOrUpdatePipeline, the store after it
CreateOrUpdatePipeline(cl, pipeline, labels) ==
  [ cl EXCEPT !.pipelines = Upsert(@, StoredPipeline(cl, pipeline, labels)) ]

\* what tekton.CreateOrUpdatePipeline returns: the server's object, which
\* "is missing some fields that the original has, such as APIVersion and Kind"
ReturnedPipeline(cl, pipeline, labels) ==
  [ StoredPipeline(cl, pipeline, labels) EXCEPT !.APIVersion = "", !.Kind = "" ]

\* PipelineStructures(ns).Create, the plain Create of the typed client at
\* line 877 (the other objects go through a CreateOrUpdate helper or, the
\* run, through tekton.CreatePipelineRun): the server refuses a name it
\* already holds
CanCreateStructure(cl, structure) == ~Exists(cl.structures, structure.Name)

(***************************************************************************)
(* applyPipeline, one action per cluster call.                             *)
(***************************************************************************)
Call(kind, name, ok) == [ kind |-> kind, name |-> name, ok |-> ok ]

\* applyPipeline's frame at entry
Frame(graph) ==
  [ pipeline |-> graph.pipeline, tasks |-> graph.tasks,
    resources |-> graph.resources, structure |-> graph.structure,
    resourceBindings |-> << >>, i |-> 1, run |-> Nil, elapsed |-> 0,
    faults |-> 0 ]

NoFrame ==
  Frame([ pipeline |-> Nil, tasks |-> << >>, resources |-> << >>,
          structure |-> Nil ])

\* A plausible slip: a mutating step that forgets the no-apply flag.
MutatesAlways(opt) == TRUE

\* `if !o.NoApply`, the guard of every mutating step
Mutates(opt) == ~opt.NoApply

\* A plausible slip: the tasks are applied before the resources.
FirstStepTasksFirst(frame) ==
  IF Len(frame.tasks) > 0 THEN "tasks"
  ELSE IF Len(frame.resources) > 0 THEN "resources"
  ELSE "pipeline"

\* where applyPipeline starts: the resource loop, unless it is empty
FirstStep(frame) ==
  IF Len(frame.resources) > 0 THEN "resources"
  ELSE IF Len(frame.tasks) > 0 THEN "tasks"
  ELSE "pipeline"

\* where applyPipeline goes after resource frame.i
AfterResource(frame) ==
  IF frame.i < Len(frame.resources) THEN << "resources", frame.i + 1 >>
  ELSE IF Len(frame.tasks) > 0 THEN << "tasks", 1 >>
  ELSE << "pipeline", 1 >>

\* where applyPipeline goes after task frame.i
AfterTask(frame) ==
  IF frame.i < Len(frame.tasks) THEN << "tasks", frame.i + 1 >>
  ELSE << "pipeline", 1 >>

\* the PipelineResourceBinding appended for a resource
ResourceBinding(resource) ==
  [ Name |-> resource.Name,
    ResourceRef |-> [ Name |-> resource.Name, APIVersion |-> resource.APIVersion ] ]

\* the owner reference to the pipeline put on the run and on the structure
PipelineOwnerReference(pipeline) ==
  [ APIVersion |-> TektonAPIVersion, Kind |-> "Pipeline",
    Name |-> pipeline.Name, UID |-> pipeline.UID ]

\* the PipelineRun applyPipeline builds
PipelineRun(opt, pipeline, resourceBindings) ==
  [ APIVersion |-> TektonAPIVersion, Kind |-> "PipelineRun",
    Name |-> pipeline.Name,
    OwnerReferences |-> << PipelineOwnerReference(pipeline) >>,
    Labels |-> opt.labels,
    Spec |-> [ ServiceAccount |-> opt.ServiceAccount,
               Trigger |-> [ Type |-> opt.Trigger ],
               PipelineRef |-> [ Name |-> pipeline.Name,
                                 APIVersion |-> pipeline.APIVersion ],
               Resources |-> resourceBindings,
               Params |-> opt.Results.PipelineParams ] ]

\* the structure record as applyPipeline stamps it before creating it
StampedStructure(structure, pipeline, run) ==
  [ structure EXCEPT
      !.OwnerReferences = << PipelineOwnerReference(pipeline) >>,
      !.PipelineRef = IF @ = Nil THEN Ptr(pipeline.Name) ELSE @,
      !.Name = run.Name,
      !.PipelineRunRef = Ptr(run.Name) ]

\* the Results applyPipeline stores before it returns nil
StoreResults(opt, frame) ==
  [ opt EXCEPT
      !.Results.Tasks = frame.tasks,
      !.Results.Pipeline = Ptr(frame.pipeline),
      !.Results.Resources = frame.resources,
      !.Results.PipelineRun = frame.run,
      !.Results.Structure = frame.structure ]

\* A plausible slip: the error returned is a shadowed variable that is nil.
ReturnErrorShadowed(message) ==
  /\ pc' = "failed"
  /\ err' = ""

\* A plausible slip: the failed call is attempted again instead of returning.
ReturnErrorRetried(message) ==
  /\ pc' = pc
  /\ err' = ""

\* `return errors.Wrapf(err, ...)`: applyPipeline is left at once
ReturnError(message) ==
  /\ pc' = "failed"
  /\ err' = message

\* applyPipeline is entered: the clients are obtained, which may fail
StartApply ==
  /\ pc = "start"
  /\ handed # Nil
  /\ \E ok \in BOOLEAN :
       IF ok
       THEN /\ ap' = Frame(Deref(handed))
            /\ pc' = FirstStep(Frame(Deref(handed)))
            /\ err' = ""
       ELSE /\ ReturnError("failed to create the client")
            /\ ap' = [ Frame(Deref(handed)) EXCEPT !.faults = 1 ]
  /\ UNCHANGED <<o, pipelineConfig, cluster, calls, runs, handed, container, envIn, executed, host>>

\* one turn of the loop over the resources
ApplyResource ==
  /\ pc = "resources"
  /\ IF ap.resources[ap.i] = Nil
     THEN \* resource.Name on a nil *PipelineResource
          /\ pc' = "panic"
          /\ UNCHANGED <<ap, cluster, calls, err>>
     ELSE LET resource == Deref(ap.resources[ap.i])
              bound == [ ap EXCEPT !.resourceBindings =
                                     Append(@, ResourceBinding(resource)) ]
          IN IF Mutates(o)
             THEN \E ok \in BOOLEAN :
                    /\ calls' = Append(calls, Call("resource", resource.Name, ok))
                    /\ IF ok
                       THEN /\ cluster' = CreateOrUpdateSourceResource(cluster, resource)
                            /\ pc' = AfterResource(bound)[1]
                            /\ ap' = [ bound EXCEPT !.i = AfterResource(bound)[2] ]
                            /\ UNCHANGED err
                       ELSE /\ ReturnError("failed to create/update PipelineResource")
                            /\ ap' = [ bound EXCEPT !.faults = @ + 1 ]
                            /\ UNCHANGED cluster
             ELSE /\ pc' = AfterResource(bound)[1]
                  /\ ap' = [ bound EXCEPT !.i = AfterResource(bound)[2] ]
                  /\ UNCHANGED <<cluster, calls, err>>
  /\ UNCHANGED <<o, pipelineConfig, runs, handed, container, envIn, executed, host>>

\* one turn of the loop over the tasks
ApplyTask ==
  /\ pc = "tasks"
  /\ LET task == [ ap.tasks[ap.i] EXCEPT !.Namespace = DevNamespace ]
         spaced == [ ap EXCEPT !.tasks[ap.i] = task ]
     IN IF Mutates(o)
        THEN \E ok \in BOOLEAN :
               /\ calls' = Append(calls, Call("task", task.Name, ok))
               /\ IF ok
                  THEN /\ cluster' = CreateOrUpdateTask(cluster, task)
                       /\ pc' = AfterTask(spaced)[1]
                       /\ ap' = [ spaced EXCEPT !.i = AfterTask(spaced)[2] ]
                       /\ UNCHANGED err
                  ELSE /\ ReturnError("failed to create/update the task")
                       /\ ap' = [ spaced EXCEPT !.faults = @ + 1 ]
                       /\ UNCHANGED cluster
        ELSE /\ pc' = AfterTask(spaced)[1]
             /\ ap' = [ spaced EXCEPT !.i = AfterTask(spaced)[2] ]
             /\ UNCHANGED <<cluster, calls, err>>
  /\ UNCHANGED <<o, pipelineConfig, runs, handed, container, envIn, executed, host>>

\* the pipeline is namespaced, defaulted and applied, and the run is built;
\* in no-apply mode that is all that is left, and the Results are stored
ApplyPipelineObject ==
  /\ pc = "pipeline"
  /\ LET pipeline == [ ap.pipeline EXCEPT
                         !.Namespace = DevNamespace,
                         !.APIVersion = IF @ = "" THEN TektonAPIVersion ELSE @,
                         !.Kind = IF @ = "" THEN "Pipeline" ELSE @ ]
     IN IF Mutates(o)
        THEN \E ok \in BOOLEAN :
               /\ calls' = Append(calls, Call("pipeline", pipeline.Name, ok))
               /\ IF ok
                  THEN LET returned == ReturnedPipeline(cluster, pipeline, o.labels)
                       IN /\ cluster' = CreateOrUpdatePipeline(cluster, pipeline, o.labels)
                          /\ ap' = [ ap EXCEPT
                                       !.pipeline = returned,
                                       !.run = Ptr(PipelineRun(o, returned,
                                                               ap.resourceBindings)) ]
                          /\ pc' = "run"
                          /\ UNCHANGED <<err, o>>
                  ELSE /\ ReturnError("failed to create/update the Pipeline")
                       /\ ap' = [ ap EXCEPT !.pipeline = pipeline, !.faults = @ + 1 ]
                       /\ UNCHANGED <<cluster, o>>
        ELSE LET frame == [ ap EXCEPT
                              !.pipeline = pipeline,
                              !.run = Ptr(PipelineRun(o, pipeline,
                                                      ap.resourceBindings)) ]
             IN /\ ap' = frame
                /\ o' = StoreResults(o, frame)
                /\ pc' = "done"
                /\ UNCHANGED <<cluster, calls, err>>
  /\ UNCHANGED <<pipelineConfig, runs, handed, container, envIn, executed, host>>

\* tekton.CreatePipelineRun keeps retrying while the retry duration has not
\* elapsed; every failed attempt takes one unit of time
RetryBudgetLeft(frame, opt) == frame.elapsed < opt.Duration

\* one attempt of tekton.CreatePipelineRun to create the run: a create or
\* update by name, as for the other objects of the graph; an attempt fails
\* only when the cluster does
CreatePipelineRun ==
  /\ pc = "run"
  /\ LET run == Deref(ap.run)
     IN \E ok \in BOOLEAN :
          /\ calls' = Append(calls, Call("run", run.Name, ok))
          /\ IF ok
             THEN /\ cluster' = [ cluster EXCEPT !.runs = Upsert(@, run) ]
                  /\ IF ap.structure # Nil
                     THEN /\ pc' = "structure"
                          /\ ap' = [ ap EXCEPT !.structure =
                                       Ptr([ Deref(@) EXCEPT !.PipelineRunRef = Ptr(run.Name) ]) ]
                          /\ UNCHANGED o
                     ELSE /\ pc' = "done"
                          /\ o' = StoreResults(o, ap)
                          /\ UNCHANGED ap
                  /\ UNCHANGED err
             ELSE /\ IF RetryBudgetLeft(ap, o)
                     THEN /\ ap' = [ ap EXCEPT !.elapsed = @ + 1, !.faults = @ + 1 ]
                          /\ UNCHANGED <<pc, err>>
                     ELSE /\ ReturnError("failed to create the PipelineRun")
                          /\ ap' = [ ap EXCEPT !.faults = @ + 1 ]
                  /\ UNCHANGED <<cluster, o>>
  /\ UNCHANGED <<pipelineConfig, runs, handed, container, envIn, executed, host>>

\* the structure record is stamped with the run and created, after the
\* structure CRD is registered
CreateStructure ==
  /\ pc = "structure"
  /\ LET structure == StampedStructure(Deref(ap.structure), ap.pipeline, Deref(ap.run))
         stamped == [ ap EXCEPT !.structure = Ptr(structure) ]
     IN \E registered \in BOOLEAN, ok \in BOOLEAN :
          IF ~registered
          THEN \* the clients or kube.RegisterPipelineStructureCRD failed
               /\ ~ok
               /\ ReturnError("failed to register the PipelineStructure CRD")
               /\ ap' = [ ap EXCEPT !.faults = @ + 1 ]
               /\ UNCHANGED <<cluster, calls, o>>
          ELSE /\ calls' = Append(calls, Call("structure", structure.Name,
                                              ok /\ CanCreateStructure(cluster, structure)))
               /\ IF ok /\ CanCreateStructure(cluster, structure)
                  THEN /\ cluster' = [ cluster EXCEPT !.structures = @ \cup { structure } ]
                       /\ ap' = stamped
                       /\ o' = StoreResults(o, stamped)
                       /\ pc' = "done"
                       /\ UNCHANGED err
                  ELSE /\ ReturnError("failed to create the PipelineStructure")
                       /\ ap' = [ stamped EXCEPT !.faults =
                                    IF CanCreateStructure(cluster, structure)
                                    THEN @ + 1 ELSE @ ]
                       /\ UNCHANGED <<cluster, o>>
  /\ UNCHANGED <<pipelineConfig, runs, handed, container, envIn, executed, host>>

(***************************************************************************)
(* The compiler from the configuration to the Results, in no-apply mode:   *)
(* generateTask on a configuration drawn from bounded step trees, the      *)
(* apply without cluster calls, and generateTask called again on the same  *)
(* options and configuration.                                              *)
(***************************************************************************)
\* a step of a drawn tree is a group (no command), a command with no name,
\* or a command with a name of its own
NodeKinds == { "group", "cmd", "named" }

\* the forests of exactly n nodes: sequences of trees, each a node kind and
\* the forest of its children
RECURSIVE ForestShapes(_)
ForestShapes(n) ==
  IF n = 0 THEN { << >> }
  ELSE UNION { { << [ kind |-> k, kids |-> kids ] >> \o rest :
                   k \in NodeKinds, kids \in ForestShapes(m),
                   rest \in ForestShapes(n - 1 - m) } : m \in 0..(n - 1) }

\* the steps of a forest; a command is the text run and the place of its
\* step in the configuration, so that no two steps have the same command
RECURSIVE StepsOf(_, _)
StepsOf(forest, place) ==
  [ i \in 1..Len(forest) |->
      LET here == place \o << "." >> \o Itoa(i)
      IN PipelineStep(IF forest[i].kind = "named" THEN << "step", "3" >> ELSE << >>,
                      IF forest[i].kind = "group" THEN << >>
                      ELSE Chars(Text(<< "run" >> \o here)),
                      StepsOf(forest[i].kids, here)) ]

StageFields == << "Setup", "SetVersion", "PreBuild", "Build", "PostBuild", "Promote" >>

\* the stages from stage k on, absent or with a forest, of at most n nodes
\* together
RECURSIVE StageForests(_, _)
StageForests(k, n) ==
  IF k > Len(StageFields) THEN { << >> }
  ELSE UNION { { << f >> \o rest : f \in ForestShapes(m),
                                   rest \in StageForests(k + 1, n - m) } :
               m \in 0..n }

\* the lifecycles of a drawn configuration: a stage with no step is absent
LifecyclesOf(forests) ==
  LET lifecycle(k) == IF forests[k] = << >> THEN Nil
                      ELSE Ptr([ Steps |-> StepsOf(forests[k], << StageFields[k] >>) ])
  IN [ Setup |-> lifecycle(1), SetVersion |-> lifecycle(2), PreBuild |-> lifecycle(3),
       Build |-> lifecycle(4), PostBuild |-> lifecycle(5), Promote |-> lifecycle(6),
       Pipeline |-> Nil ]

\* a pod template of one container
PodTemplate(image) ==
  [ Spec |-> [ Containers |-> << [ NoContainer EXCEPT !.Name = << image >>,
                                                     !.Image = image ] >>,
               Volumes |-> << >> ] ]

DefaultPodTemplates ==
  [ n \in { "maven", defaultContainerName } |-> PodTemplate(n) ]

\* a pod template with no container
EmptyPodTemplate == [ Spec |-> [ Containers |-> << >>, Volumes |-> << >> ] ]

\* a volume and a mount of a pod template's own
CacheVolume == [ Name |-> "cache", DownwardAPI |-> << >> ]

CacheMount == [ Name |-> "cache", MountPath |-> "/cache", ReadOnly |-> FALSE ]

\* a pod template that already holds the podinfo volume and mount
MountedPodTemplate(image) ==
  [ Spec |-> [ Containers |-> << [ NoContainer EXCEPT
                                     !.Name = << image >>, !.Image = image,
                                     !.VolumeMounts = << CacheMount, PodInfoMount >> ] >>,
               Volumes |-> << CacheVolume, PodInfoVolume >> ] ]

\* the pod template maps drawn: every template usable, one of the two with no
\* container, no default template, and templates with volumes of their own
TemplateMaps ==
  { DefaultPodTemplates,
    [ DefaultPodTemplates EXCEPT !["maven"] = EmptyPodTemplate ],
    [ DefaultPodTemplates EXCEPT ![defaultContainerName] = EmptyPodTemplate ],
    [ n \in { "maven" } |-> PodTemplate(n) ],
    [ DefaultPodTemplates EXCEPT !["maven"] = MountedPodTemplate("maven") ],
    [ DefaultPodTemplates EXCEPT
        !["maven"] = [ PodTemplate("maven") EXCEPT !.Spec.Volumes = << CacheVolume >> ],
        ![defaultContainerName] = MountedPodTemplate(defaultContainerName) ] }

\* the containers the steps of a drawn tree ask for, by the kind of the step
Boxings ==
  { [ k \in NodeKinds |-> "" ],
    [ k \in NodeKinds |-> IF k = "cmd" THEN "nodejs" ELSE "" ],
    [ k \in NodeKinds |-> IF k = "group" THEN "nodejs"
                          ELSE IF k = "named" THEN "maven" ELSE "" ] }

StepKind(step) ==
  IF step.Command = << >> THEN "group"
  ELSE IF step.Name # << >> THEN "named"
  ELSE "cmd"

\* the steps with the containers of a boxing
RECURSIVE InContainers(_, _)
InContainers(steps, boxes) ==
  [ i \in 1..Len(steps) |->
      [ steps[i] EXCEPT !.Container = boxes[StepKind(steps[i])],
                        !.Steps = InContainers(steps[i].Steps, boxes) ] ]

\* the lifecycles of the last three stages, with the containers of a boxing
BoxedLifecycles(forests, boxes) ==
  LET lifecycle(k) == IF forests[k] = << >> THEN Nil
                      ELSE Ptr([ Steps |-> InContainers(
                                   StepsOf(forests[k], << StageFields[k + 3] >>), boxes) ])
  IN [ Setup |-> Nil, SetVersion |-> Nil, PreBuild |-> Nil,
       Build |-> lifecycle(1), PostBuild |-> lifecycle(2), Promote |-> lifecycle(3),
       Pipeline |-> Nil ]

\* the steps and the volumes the tasks of a drawn declarative pipeline hold
DeclaredStep == [ NoContainer EXCEPT !.Name = << "one" >>, !.Image = "maven" ]

DeclaredSteps ==
  { << >>,
    << DeclaredStep >>,
    << [ NoContainer EXCEPT !.Name = << "one" >>, !.Image = "maven",
                            !.VolumeMounts = << CacheMount, PodInfoMount >> ],
       [ NoContainer EXCEPT !.Name = << "two" >>, !.Image = "maven" ] >> }

DeclaredVolumes == { << >>, << CacheVolume >>, << PodInfoVolume, CacheVolume >> }

\* a setversion stage of one command
VersionStage ==
  Ptr([ Steps |-> << PipelineStep(<< >>, Chars("jx step next-version"), << >>) >> ])

\* the lifecycles that hold a declarative pipeline, next to a setversion
\* stage
DeclarativeLifecycles(def) ==
  [ Setup |-> Nil, SetVersion |-> VersionStage, PreBuild |-> Nil, Build |-> Nil,
    PostBuild |-> Nil, Promote |-> Nil, Pipeline |-> Ptr(def) ]

\* the lifecycles of the build packs with a setversion stage and a build
\* stage of one command each
MakeLifecycles ==
  [ Setup |-> Nil, SetVersion |-> VersionStage, PreBuild |-> Nil,
    Build |-> Ptr([ Steps |-> << PipelineStep(<< >>, Chars("make"), << >>) >> ]),
    PostBuild |-> Nil, Promote |-> Nil, Pipeline |-> Nil ]

\* the configuration with the given lifecycles for the given kind, for a
\* kind the program does not know under the feature kind
ConfigFor(kind, lifecycles) ==
  [ Agent |-> [ Container |-> "maven" ],
    Pipelines |-> [ Release |-> IF kind = "release" THEN lifecycles ELSE Nil,
                    PullRequest |-> IF kind = "pullrequest" THEN lifecycles ELSE Nil,
                    Feature |-> IF kind \in { "feature", "other" } THEN lifecycles
                                ELSE Nil ] ]

\* the steps drawn for a configuration: the deepest trees where every stage
\* is compiled, smaller ones for the other kinds and settings
NodeBudget(kind, noSetVersion) ==
  IF kind = "pullrequest" /\ noSetVersion THEN MaxNodes
  ELSE IF kind \in { "release", "pullrequest" } THEN MaxNodes - 1
  ELSE 1

\* the options of a compilation
CompileOptions(kind, noSetVersion, templates) ==
  [ DefaultOptions EXCEPT
      !.PipelineKind = kind, !.NoSetVersion = noSetVersion,
      !.NoApply = TRUE, !.gitInfo = Ptr(DefaultGitInfo),
      !.Branch = "master", !.DockerRegistry = "reg",
      !.PodTemplates = templates ]

\* build-pack configurations of every kind with the usual templates
InitStages ==
  \E kind \in PipelineKinds \cup { "other" }, noSetVersion \in BOOLEAN,
     present \in BOOLEAN :
    \E forests \in StageForests(1, NodeBudget(kind, noSetVersion)),
       h \in { NoHost, FileHost } :
      /\ present \/ forests = [ k \in 1..Len(StageFields) |-> << >> ]
      /\ AtGenerateTask(CompileOptions(kind, noSetVersion, DefaultPodTemplates),
                        ConfigFor(kind, IF present THEN Ptr(LifecyclesOf(forests))
                                        ELSE Nil),
                        h)

\* build-pack configurations over the drawn template maps, with steps and
\* an agent that ask for a container
InitTemplates ==
  \E templates \in TemplateMaps, boxes \in Boxings, agent \in { "", "maven" },
     forests \in StageForests(4, MaxNodes - 1) :
    AtGenerateTask(CompileOptions("pullrequest", TRUE, templates),
                   [ ConfigFor("pullrequest", Ptr(BoxedLifecycles(forests, boxes)))
                       EXCEPT !.Agent.Container = agent ],
                   NoHost)

\* a repository whose organisation and name have one letter each: with the
\* branch x the name of its pipeline resources has five characters, with no
\* known branch four
ShortGitInfo ==
  [ DefaultGitInfo EXCEPT !.Organisation = "a", !.Name = "b" ]

\* what may reject a drawn declarative pipeline: nothing, its own
\* validation, the generation, or the validation of what was generated
Invalids == { "", "definition", "generation", "pipeline", "task" }

\* configurations that hold a declarative pipeline, and for the release kind
\* a setversion stage of one command next to it
InitDeclarative ==
  \E kind \in { "release", "feature" }, stages \in 1..MaxStages,
     steps \in DeclaredSteps, volumes \in DeclaredVolumes,
     git \in { DefaultGitInfo, ShortGitInfo }, branch \in { "master", "x", "" },
     invalid \in Invalids, h \in { NoHost, FileHost } :
    /\ (git = DefaultGitInfo) = (branch = "master")
    /\ invalid # "" => (git = DefaultGitInfo /\ Len(steps) = 1)
    /\ AtGenerateTask(
         [ CompileOptions(kind, FALSE, DefaultPodTemplates)
             EXCEPT !.gitInfo = Ptr(git), !.Branch = branch ],
         ConfigFor(kind, Ptr(DeclarativeLifecycles(
                               [ DeclarativePipeline(stages, steps, volumes)
                                   EXCEPT !.Invalid = invalid ]))),
         h)

InitCompile ==
  /\ InitStages \/ InitTemplates \/ InitDeclarative
  /\ handed = Nil
  /\ cluster = NoCluster
  /\ pc = "compile"
  /\ err = ""
  /\ ap = NoFrame
  /\ calls = << >>
  /\ runs = << >>
  /\ container = NoContainer
  /\ envIn = << >>

\* generateTask is called again on the same options and configuration
CompileAgain ==
  /\ pc \in { "done", "failed" }
  /\ Len(runs) + 1 < MaxCompile
  /\ runs' = Append(runs, [ pc |-> pc, err |-> err, handed |-> handed, o |-> o ])
  /\ pc' = "compile"
  /\ err' = ""
  /\ UNCHANGED <<o, pipelineConfig, cluster, ap, calls, handed, container, envIn, executed, host>>

NextCompile ==
  \/ GenerateTask
  \/ StartApply
  \/ ApplyResource
  \/ ApplyTask
  \/ ApplyPipelineObject
  \/ CompileAgain

SpecCompile == InitCompile /\ [][NextCompile]_vars

(***************************************************************************)
(* SpecApply: applyPipeline on the graph of either path, with every cluster *)
(* call free to fail, and the whole command run again after it ended.      *)
(***************************************************************************)
\* Run where generatePipeline calls applyPipeline: a release run on a
\* repository with or without an https URL, whose configuration holds a
\* setversion stage and either a build stage of one command or a
\* declarative pipeline of some stages with one step each; the version
\* resolver has run on a host with or without a VERSION file
InitApply ==
  /\ \E noApply \in BOOLEAN, duration \in 0..MaxDuration,
        url \in { "", "https://git/acme/app" }, stages \in 0..MaxStages,
        h \in { NoHost, FileHost } :
       LET git == Ptr([ DefaultGitInfo EXCEPT !.HttpsURL = url ])
           opt == [ DefaultOptions EXCEPT
                      !.NoApply = noApply, !.Duration = duration,
                      !.gitInfo = git, !.Branch = "master", !.DockerRegistry = "reg",
                      !.PodTemplates = DefaultPodTemplates ]
           lifecycles ==
             WithGitCredentials(
               IF stages = 0 THEN MakeLifecycles
               ELSE DeclarativeLifecycles(
                      DeclarativePipeline(stages, << DeclaredStep >>, << >>)))
           config == ConfigFor("release", Ptr(lifecycles))
           labelled == [ Versioned(opt, h) EXCEPT
                           !.labels = setBuildValues(opt, stages > 0) ]
           compiled == CompileLifecycles(labelled, config, lifecycles)
           counted == WithCompileState(labelled, compiled.st)
       IN /\ VersionError(opt, config, h) = ""
          /\ pipelineConfig = Ptr(config)
          /\ executed = VersionRan(opt, config, h)
          /\ host = h
          /\ IF stages = 0
             THEN /\ o = counted
                  /\ handed = Ptr(applyTask(counted,
                                            BuildPackTask(counted, compiled.steps,
                                                          compiled.volumes)))
             ELSE /\ o = labelled
                  /\ handed = Ptr(DeclarativeGraph(labelled,
                                                   Deref(lifecycles.Pipeline)))
  /\ cluster = NoCluster
  /\ pc = "start"
  /\ err = ""
  /\ ap = NoFrame
  /\ calls = << >>
  /\ runs = << >>
  /\ container = NoContainer
  /\ envIn = << >>

\* the command is run again, with the same input, after it ended
RunAgain ==
  /\ pc \in { "done", "failed" }
  /\ Len(runs) + 1 < MaxApply
  /\ runs' = Append(runs, [ pc |-> pc, err |-> err, calls |-> calls,
                            cluster |-> cluster, faults |-> ap.faults ])
  /\ pc' = "start"
  /\ err' = ""
  /\ o' = [ o EXCEPT !.Results =
              [ NoResults EXCEPT !.PipelineParams = o.Results.PipelineParams ] ]
  /\ calls' = << >>
  /\ UNCHANGED <<pipelineConfig, cluster, ap, handed, container, envIn, executed, host>>

NextApply ==
  \/ StartApply
  \/ ApplyResource
  \/ ApplyTask
  \/ ApplyPipelineObject
  \/ CreatePipelineRun
  \/ CreateStructure
  \/ RunAgain

SpecApply == InitApply /\ [][NextApply]_vars

\* the code leaves applyPipeline on every path, so every enabled step is
\* eventually taken
FairSpecApply == SpecApply /\ WF_vars(NextApply)

(***************************************************************************)
(* The compiler on a step and its child, in no-apply mode: a pull request  *)
(* configuration whose build stage holds one step with one child, with     *)
(* drawn commands, directories and containers.                             *)
(***************************************************************************)
\* the command texts drawn for the child: without an old form, with each of
\* them, with the export text twice, with a backslash before an escaped
\* dollar, and with the export text standing inside the two halves of
\* another one
Commands ==
  { Chars("make"),
    Chars(ExportText \o "npm test"),
    Chars("echo $(cat VERSION)"),
    Chars("echo \\$HOME"),
    Chars("$(cat ../VERSION) $(cat ../../VERSION)"),
    Chars(ExportText \o "cd app && " \o ExportText \o "make"),
    Chars("\\\\$"),
    Chars("\\$(cat VERSION)"),
    Chars("export VERSION='cat " \o ExportText \o "VERSION' && make") }

\* the command texts drawn for the parent: none, so that it is a group
ParentCommands == { << >>, Chars("make"), Chars("echo $(cat VERSION)") }

\* the directories drawn: none, a relative one, an absolute one, and one
\* that starts with ./ and holds a placeholder
Dirs ==
  { << >>, << "sub" >>, << "/", "abs" >>,
    << ".", "/", "charts", "/", "REPLACE_ME_APP_NAME" >> }

\* the containers drawn: none, or the default one where the agent's is maven
Containers == { "", defaultContainerName }

\* the lifecycles whose build stage is the given step
BuildLifecycles(step) ==
  [ LifecyclesOf([ k \in 1..Len(StageFields) |-> << >> ])
      EXCEPT !.Build = Ptr([ Steps |-> << step >> ]) ]

InitSteps ==
  /\ \E command \in ParentCommands, childCommand \in Commands,
        dir \in Dirs, childDir \in Dirs,
        box \in Containers, childBox \in Containers :
       LET child == [ PipelineStep(<< >>, childCommand, << >>)
                        EXCEPT !.Dir = childDir, !.Container = childBox ]
           step == [ PipelineStep(<< >>, command, << child >>)
                       EXCEPT !.Dir = dir, !.Container = box ]
       IN /\ o = CompileOptions("pullrequest", TRUE, DefaultPodTemplates)
          /\ pipelineConfig =
               Ptr(ConfigFor("pullrequest", Ptr(BuildLifecycles(step))))
  /\ handed = Nil
  /\ cluster = NoCluster
  /\ pc = "compile"
  /\ err = ""
  /\ ap = NoFrame
  /\ calls = << >>
  /\ runs = << >>
  /\ container = NoContainer
  /\ envIn = << >>
  /\ executed = << >>
  /\ host = NoHost

SpecSteps == InitSteps /\ [][NextCompile]_vars

(***************************************************************************)
(* The run from the version resolver on: setVersionOnReleasePipelines on a *)
(* drawn configuration and host, then generateTask and applyPipeline with  *)
(* every cluster call free to fail.                                        *)
(***************************************************************************)
\* what the VERSION file may hold once the commands have run: nothing, white
\* space only (a blank line, an empty line that ends with a carriage return
\* and a line feed), or a version with white space around it
VersionFiles ==
  { Nil, Ptr(<< >>), Ptr(<< " ", "\n" >>), Ptr(<< "\r", "\n" >>),
    Ptr(<< "1.2.3", "\n" >>), Ptr(<< "\t", "2.0.0", " ", "\n" >>),
    Ptr(<< "\\v", "3.0.0", "\f", "\r", "\n" >>) }

\* the hosts drawn: one of the commands fails, or none does and the file is
\* any of the drawn ones, or the look for the file or its reading fails
Hosts ==
  { [ fails |-> k, fault |-> "", file |-> Ptr(<< "1.2.3", "\n" >>) ] : k \in 1..MaxNodes }
    \cup { [ fails |-> 0, fault |-> "", file |-> f ] : f \in VersionFiles }
    \cup { [ fails |-> 0, fault |-> "stat", file |-> Nil ],
           [ fails |-> 0, fault |-> "read", file |-> Ptr(<< "1.2.3", "\n" >>) ] }

\* the When of the steps of a drawn tree, by the kind of the step
Whenings ==
  { [ k \in NodeKinds |-> << >> ],
    [ k \in NodeKinds |-> IF k = "cmd" THEN << "!prow" >> ELSE << >> ],
    [ k \in NodeKinds |-> IF k = "named" THEN << " ", "!prow", "\r", "\n" >>
                          ELSE IF k = "cmd" THEN << "prow" >> ELSE << >> ] }

\* the steps with the When of a whening
RECURSIVE WithWhens(_, _)
WithWhens(steps, whens) ==
  [ i \in 1..Len(steps) |->
      [ steps[i] EXCEPT !.When = whens[StepKind(steps[i])],
                        !.Steps = WithWhens(steps[i].Steps, whens) ] ]

\* lifecycles with the given setversion stage and a build stage of one step
VersionLifecycles(setVersion) ==
  [ Setup |-> Nil, SetVersion |-> setVersion, PreBuild |-> Nil,
    Build |-> Ptr([ Steps |-> StepsOf(<< [ kind |-> "cmd", kids |-> << >> ] >>,
                                      << "Build" >>) ]),
    PostBuild |-> Nil, Promote |-> Nil, Pipeline |-> Nil ]

\* the options of a run
RunOptions(kind, noSetVersion, viewSteps, branch, revision) ==
  [ DefaultOptions EXCEPT
      !.PipelineKind = kind, !.NoSetVersion = noSetVersion, !.ViewSteps = viewSteps,
      !.gitInfo = Ptr(DefaultGitInfo), !.Branch = branch, !.Revision = revision,
      !.DockerRegistry = "reg", !.PodTemplates = DefaultPodTemplates ]

\* release runs: no release lifecycles, no setversion stage, or a setversion
\* stage of a drawn forest; the deepest forests where the resolver is not
\* skipped
InitRelease ==
  \E noSetVersion \in BOOLEAN, viewSteps \in BOOLEAN, h \in Hosts,
     whens \in Whenings, stage \in { "none", "absent", "present" } :
    \E n \in 0..(IF noSetVersion \/ viewSteps THEN 1 ELSE MaxNodes) :
      \E forest \in ForestShapes(n) :
        /\ stage # "present" => (n = 0 /\ whens = [ k \in NodeKinds |-> << >> ])
        /\ (noSetVersion \/ viewSteps) => h.fault = ""
        /\ o = RunOptions("release", noSetVersion, viewSteps, "master", << "abc" >>)
        /\ host = h
        /\ pipelineConfig =
             Ptr(ConfigFor("release",
                   IF stage = "none" THEN Nil
                   ELSE Ptr(VersionLifecycles(
                          IF stage = "absent" THEN Nil
                          ELSE Ptr([ Steps |-> WithWhens(
                                       StepsOf(forest, << "SetVersion" >>), whens) ])))))

\* runs of the other kinds, on a configuration with a setversion stage
InitPreview ==
  \E kind \in { "pullrequest", "feature", "other" }, noSetVersion \in BOOLEAN,
     viewSteps \in BOOLEAN, branch \in { "", "master", "feature-x" },
     revision \in { << >>, << "abc" >> }, forest \in ForestShapes(1) :
    /\ o = RunOptions(kind, noSetVersion, viewSteps, branch, revision)
    /\ host = [ fails |-> 0, fault |-> "", file |-> Ptr(<< "1.2.3", "\n" >>) ]
    /\ pipelineConfig =
         Ptr(ConfigFor(kind, Ptr(VersionLifecycles(
                                   Ptr([ Steps |-> StepsOf(forest, << "SetVersion" >>) ])))))

InitVersion ==
  /\ InitRelease \/ InitPreview
  /\ handed = Nil
  /\ cluster = NoCluster
  /\ pc = "version"
  /\ err = ""
  /\ ap = NoFrame
  /\ calls = << >>
  /\ runs = << >>
  /\ container = NoContainer
  /\ envIn = << >>
  /\ executed = << >>

NextVersion ==
  \/ SetVersion
  \/ GenerateTask
  \/ StartApply
  \/ ApplyResource
  \/ ApplyTask
  \/ ApplyPipelineObject
  \/ CreatePipelineRun

SpecVersion == InitVersion /\ [][NextVersion]_vars

(***************************************************************************)
(* Claims on the compiler.                                                 *)
(***************************************************************************)
\* the commands of a sequence of step trees, depth-first, a step before its
\* children and its children before the steps after it
RECURSIVE PreOrderCommands(_)
PreOrderCommands(steps) ==
  IF steps = << >> THEN << >>
  ELSE (IF steps[1].Command # << >> THEN << steps[1].Command >> ELSE << >>)
       \o PreOrderCommands(steps[1].Steps)
       \o PreOrderCommands(Tail(steps))

\* the commands of the present stages from stage i on, with or without the
\* setversion stage
RECURSIVE StageCommands(_, _, _)
StageCommands(all, i, withSetVersion) ==
  IF i > Len(all) THEN << >>
  ELSE (IF all[i].Lifecycle = Nil
           \/ (all[i].Name = << "setversion" >> /\ ~withSetVersion)
        THEN << >>
        ELSE PreOrderCommands(Deref(all[i].Lifecycle).Steps))
       \o StageCommands(all, i + 1, withSetVersion)

\* the lifecycles of the kind, as the configuration holds them
CurrentLifecycles == Deref(SelectLifecycles(Deref(pipelineConfig), o.PipelineKind))

\* the steps of the task of a handed graph, and the commands they run
TaskSteps(graph) == Deref(graph).tasks[1].Spec.Steps

TaskCommands == [ i \in 1..Len(TaskSteps(handed)) |-> TaskSteps(handed)[i].Args[2] ]

\* a task compiled from the stages of the build packs is handed on
HandedTask == handed # Nil /\ CurrentLifecycles.Pipeline = Nil

\* C1 as stated: the steps of the task generated from the build packs run the
\* commands of every present stage, in the lifecycle order, each stage's trees flattened depth
\* first with a step before its children, one step for every command.
C1_EveryPresentStage ==
  HandedTask => TaskCommands = StageCommands(All(CurrentLifecycles), 1, TRUE)

\* C1 amended: the steps of the task generated from the build packs run the
\* commands of every
\* present stage, the setversion stage only if NoSetVersion is set, in the
\* lifecycle order, each stage's trees (the release setup stage with the
\* jx-git-credentials step in front) flattened depth first with a step before
\* its children, one step for every command.
C1_CompiledStages ==
  HandedTask => TaskCommands = StageCommands(All(CurrentLifecycles), 1, o.NoSetVersion)

\* a task of three steps is handed on: one of a compiled setversion stage, and
\* a build step with a command followed by its child
C1_Witness ==
  /\ HandedTask
  /\ Len(TaskCommands) = 3
  /\ o.NoSetVersion
  /\ CurrentLifecycles.SetVersion # Nil
  /\ CurrentLifecycles.Build # Nil
  /\ \E j \in 1..Len(Deref(CurrentLifecycles.Build).Steps) :
       LET step == Deref(CurrentLifecycles.Build).Steps[j]
       IN /\ step.Command # << >>
          /\ Len(step.Steps) = 1
          /\ step.Steps[1].Command # << >>

\* C2 as stated: generateTask called a second time on the same options and
\* configuration hands on a task with the same steps as the first time.
C2_CompileTwiceSame ==
  (Len(runs) = 1 /\ runs[1].handed # Nil /\ handed # Nil)
    => TaskSteps(handed) = TaskSteps(runs[1].handed)

(***************************************************************************)
(* Claims on the volumes and the names of the compiled steps.              *)
(***************************************************************************)
\* how many elements of a sequence have the name
Named(seq, name) == Cardinality({ i \in 1..Len(seq) : seq[i].Name = name })

\* the tasks of the graph handed on
HandedTasks == Range(Deref(handed).tasks)

\* C11: no task of a generated graph holds two volumes called podinfo and no
\* step of it two mounts called podinfo, on the build-pack path and on the
\* declarative path, whatever volumes and mounts the pod templates or the
\* declared tasks already hold and however often the graph is generated; a
\* task with a step holds the volume and each of its steps the mount.
C11_InjectedOnce ==
  handed # Nil =>
    \A task \in HandedTasks :
      /\ Named(task.Spec.Volumes, PodInfoVolume.Name) <= 1
      /\ \A step \in Range(task.Spec.Steps) :
           Named(step.VolumeMounts, PodInfoMount.Name) = 1
      /\ task.Spec.Steps # << >> => Named(task.Spec.Volumes, PodInfoVolume.Name) = 1

\* a graph generated a second time whose task has two steps or more, from a
\* pod template or a declared task that held the podinfo volume and a mount
\* of it before the injection
C11_Witness ==
  /\ handed # Nil
  /\ Len(runs) = 1
  /\ \E task \in HandedTasks :
       /\ Len(task.Spec.Steps) >= 2
       /\ Len(task.Spec.Volumes) >= 2
       /\ \E step \in Range(task.Spec.Steps) : Len(step.VolumeMounts) >= 2
  /\ LET lifecycles == CurrentLifecycles
     IN IF lifecycles.Pipeline # Nil
        THEN ContainsVolume(Deref(lifecycles.Pipeline).Volumes, PodInfoVolume)
        ELSE \E n \in DOMAIN o.PodTemplates :
               ContainsVolume(o.PodTemplates[n].Spec.Volumes, PodInfoVolume)

\* the names of the steps that have a command, in the order of
\* PreOrderCommands
RECURSIVE PreOrderNames(_)
PreOrderNames(steps) ==
  IF steps = << >> THEN << >>
  ELSE (IF steps[1].Command # << >> THEN << steps[1].Name >> ELSE << >>)
       \o PreOrderNames(steps[1].Steps)
       \o PreOrderNames(Tail(steps))

\* the names the configuration gives the steps of the compiled stages, in
\* the order of the compiled steps
RECURSIVE StageStepNames(_, _, _)
StageStepNames(all, i, withSetVersion) ==
  IF i > Len(all) THEN << >>
  ELSE (IF all[i].Lifecycle = Nil
           \/ (all[i].Name = << "setversion" >> /\ ~withSetVersion)
        THEN << >>
        ELSE PreOrderNames(Deref(all[i].Lifecycle).Steps))
       \o StageStepNames(all, i + 1, withSetVersion)

\* the compiled steps of the handed task whose name is a default name
DefaultNamed ==
  LET given == StageStepNames(All(CurrentLifecycles), 1, o.NoSetVersion)
  IN { i \in 1..Len(given) : given[i] = << >> }

\* the counter at the start of the compilation pass that handed the task on
PassBase == IF runs = << >> THEN 0 ELSE runs[Len(runs)].o.stepCounter

EndsWith(s, t) == Len(s) >= Len(t) /\ SubSeq(s, Len(s) - Len(t) + 1, Len(s)) = t

\* C12: in the task of one compilation pass the step counter has advanced by
\* one for every compiled step, the i-th compiled step, if it has no name of
\* its own, is named after the counter's value at that step, and no two
\* default-named steps have the same name.
C12_DefaultNamesUnique ==
  (HandedTask /\ pc # "compile") =>
    /\ o.stepCounter = PassBase + Len(TaskSteps(handed))
    /\ \A i \in DefaultNamed :
         EndsWith(TaskSteps(handed)[i].Name, << "step" >> \o Itoa(1 + PassBase + i))
    /\ \A i, j \in DefaultNamed :
         i # j => TaskSteps(handed)[i].Name # TaskSteps(handed)[j].Name

\* a second pass hands on a task with two default-named steps of one stage
\* and a step with a name of its own
C12_Witness ==
  /\ HandedTask
  /\ pc # "compile"
  /\ Len(runs) = 1
  /\ PassBase > 0
  /\ Len(TaskSteps(handed)) = 3
  /\ \E i, j \in DefaultNamed :
       /\ i < j
       /\ TaskSteps(handed)[i].Name[1] = TaskSteps(handed)[j].Name[1]
  /\ Cardinality(DefaultNamed) = 2

(***************************************************************************)
(* Claims on the pod templates.                                            *)
(***************************************************************************)
\* the container names the steps with a command ask for, their own or the
\* one they inherit, in the order of PreOrderCommands
RECURSIVE RequestedContainers(_, _)
RequestedContainers(steps, inherited) ==
  IF steps = << >> THEN << >>
  ELSE LET own == IF steps[1].Container # "" THEN steps[1].Container ELSE inherited
       IN (IF steps[1].Command # << >>
           THEN << IF own = "" THEN defaultContainerName ELSE own >>
           ELSE << >>)
          \o RequestedContainers(steps[1].Steps, own)
          \o RequestedContainers(Tail(steps), inherited)

\* the container names asked for in the compiled stages, in the order of the
\* compiled steps
RECURSIVE StageContainers(_, _, _, _)
StageContainers(all, i, withSetVersion, agent) ==
  IF i > Len(all) THEN << >>
  ELSE (IF all[i].Lifecycle = Nil
           \/ (all[i].Name = << "setversion" >> /\ ~withSetVersion)
        THEN << >>
        ELSE RequestedContainers(Deref(all[i].Lifecycle).Steps, agent))
       \o StageContainers(all, i + 1, withSetVersion, agent)

\* the names asked for by the build-pack configuration of the current kind
Requested ==
  StageContainers(All(CurrentLifecycles), 1, o.NoSetVersion,
                  Deref(pipelineConfig).Agent.Container)

\* generateTask has returned on a build-pack configuration of the kind
Compiled ==
  /\ pc # "compile"
  /\ o.PipelineKind \in PipelineKinds
  /\ SelectLifecycles(Deref(pipelineConfig), o.PipelineKind) # Nil
  /\ CurrentLifecycles.Pipeline = Nil

HasContainer(templates, name) ==
  name \in DOMAIN templates /\ Len(templates[name].Spec.Containers) > 0

\* C17: when the default pod template has a container and every template a
\* step finds has one, the compilation succeeds, a step that asks for a name
\* with no template is compiled from the first container of the default
\* template, and the missing-template set holds exactly the names asked for
\* that have no template; a name that has a template is never in it.
C17_MissingFallsBack ==
  Compiled =>
    /\ o.MissingPodTemplates \cap DOMAIN o.PodTemplates = {}
    /\ ( /\ HasContainer(o.PodTemplates, defaultContainerName)
         /\ \A i \in 1..Len(Requested) :
              Requested[i] \in DOMAIN o.PodTemplates
                => HasContainer(o.PodTemplates, Requested[i]) )
       => /\ HandedTask
          /\ Len(TaskSteps(handed)) = Len(Requested)
          /\ o.MissingPodTemplates = Range(Requested) \ DOMAIN o.PodTemplates
          /\ \A i \in 1..Len(Requested) :
               LET from == IF Requested[i] \in DOMAIN o.PodTemplates
                           THEN o.PodTemplates[Requested[i]]
                           ELSE o.PodTemplates[defaultContainerName]
               IN /\ TaskSteps(handed)[i].Image = from.Spec.Containers[1].Image
                  /\ \A k \in 1..Len(from.Spec.Containers[1].VolumeMounts) :
                       TaskSteps(handed)[i].VolumeMounts[k]
                         = from.Spec.Containers[1].VolumeMounts[k]

\* a task of two steps, one that asked for a name with no template and was
\* compiled from a default template with mounts of its own, and one that
\* asked for a name that has a template
C17_Witness ==
  /\ Compiled
  /\ HandedTask
  /\ Len(Requested) = 2
  /\ \E i, j \in 1..2 :
       /\ Requested[i] = "nodejs"
       /\ Requested[j] = "maven"
       /\ TaskSteps(handed)[i].Image = defaultContainerName
       /\ Len(TaskSteps(handed)[i].VolumeMounts) = 2
       /\ TaskSteps(handed)[j].Image = "maven"
  /\ o.MissingPodTemplates = { "nodejs" }

\* C18 as stated: the look for a pod template fails only if the default
\* template has no container: whenever the default template has a container,
\* whatever name is asked for and whatever the other templates are, the
\* compilation does not fail for want of a container, and when it fails it
\* returns an error and does not crash.
C18_FailsOnlyOnEmptyDefault ==
  Compiled =>
    /\ pc # "panic"
    /\ HasContainer(o.PodTemplates, defaultContainerName)
         => ~(pc = "failed" /\ err = "No Containers for pod template")

(***************************************************************************)
(* Claims on the kinds.                                                    *)
(***************************************************************************)
\* C19: for a kind that is none of release, pullrequest and feature
\* generateTask returns the unknown-kind error; it compiles no step (the
\* counter and the missing-template set are as before), hands no graph on,
\* makes no cluster call and leaves the Results as they were: no pipeline,
\* task, resource, run or structure, and the parameters the version resolver
\* left (the preview version, unless version-setting is disabled).
C19_UnknownKindFails ==
  (pc # "compile" /\ o.PipelineKind \notin { "release", "pullrequest", "feature" }) =>
    /\ pc = "failed"
    /\ err = "Unknown pipeline kind"
    /\ handed = Nil
    /\ o.stepCounter = 0
    /\ o.MissingPodTemplates = {}
    /\ o.Results = [ NoResults EXCEPT !.PipelineParams =
                       IF o.NoSetVersion THEN << >>
                       ELSE << Param("preview_version",
                                     << "0.0.0-SNAPSHOT-", "master", "-", "1" >>) >> ]
    /\ runs # << >> => o = runs[Len(runs)].o
    /\ calls = << >>
    /\ cluster = NoCluster

\* generateTask has failed a second time on a kind it does not know, in a
\* configuration that holds lifecycles with a step
C19_Witness ==
  /\ pc = "failed"
  /\ o.PipelineKind = "other"
  /\ Len(runs) = 1
  /\ runs[1].pc = "failed"
  /\ Deref(pipelineConfig).Pipelines.Feature # Nil
  /\ Deref(Deref(pipelineConfig).Pipelines.Feature).Build # Nil

\* C20 as stated: when the configuration has no lifecycles for the requested
\* kind, release, pullrequest or feature, generateTask returns an error: it
\* neither ends well with nothing generated nor crashes.
C20_MissingKindFails ==
  ( /\ pc # "compile"
    /\ o.PipelineKind \in PipelineKinds
    /\ SelectLifecycles(Deref(pipelineConfig), o.PipelineKind) = Nil )
    => pc = "failed"

(***************************************************************************)
(* Claims on the version resolver.                                         *)
(***************************************************************************)
\* the commands of a sequence of step trees in the order of invocation: the
\* children of a step before the step, a step marked !prow left out
RECURSIVE InvocationOrder(_)
InvocationOrder(steps) ==
  IF steps = << >> THEN << >>
  ELSE InvocationOrder(steps[1].Steps)
       \o (IF steps[1].Command # << >>
              /\ steps[1].When \notin { << "!prow" >>, << " ", "!prow", "\r", "\n" >> }
           THEN << steps[1].Command >> ELSE << >>)
       \o InvocationOrder(Tail(steps))

\* the release lifecycles and the commands of their setversion stage
ReleaseLifecycles == Deref(Deref(pipelineConfig).Pipelines.Release)

VersionCommands == InvocationOrder(Deref(ReleaseLifecycles.SetVersion).Steps)

\* the configuration has no setversion stage for a release
NoVersionStage ==
  \/ Deref(pipelineConfig).Pipelines.Release = Nil
  \/ ReleaseLifecycles.SetVersion = Nil

\* the resolver has run, for a release, and was not skipped
ReleaseResolved ==
  /\ pc # "version"
  /\ o.PipelineKind = "release"
  /\ ~o.NoSetVersion
  /\ ~o.ViewSteps

\* nothing was generated and nothing was done to the cluster
NothingGenerated ==
  /\ handed = Nil
  /\ o.stepCounter = 0
  /\ o.Results = NoResults
  /\ calls = << >>
  /\ cluster = NoCluster

\* C13: a release run, version-setting not disabled and no step listing asked
\* for, on a configuration with no setversion stage (or no release
\* lifecycles at all) fails with the error that says so, before any command
\* is run, any parameter added, any task generated and any cluster call made.
C13_MissingStageFails ==
  (ReleaseResolved /\ NoVersionStage) =>
    /\ pc = "failed"
    /\ err = IF Deref(pipelineConfig).Pipelines.Release = Nil
             THEN "no Release pipeline available"
             ELSE "no SetVersion pipeline on the Release pipeline"
    /\ executed = << >>
    /\ o.Revision = << "abc" >>
    /\ NothingGenerated

\* the run has failed on release lifecycles that have a build stage and no
\* setversion stage
C13_Witness ==
  /\ ReleaseResolved
  /\ pc = "failed"
  /\ Deref(pipelineConfig).Pipelines.Release # Nil
  /\ ReleaseLifecycles.SetVersion = Nil
  /\ ReleaseLifecycles.Build # Nil
  /\ err = "no SetVersion pipeline on the Release pipeline"

\* C14: when the n-th command of the setversion stage fails, the run fails
\* with the command's error, the commands run are the first n in the order
\* of invocation and none after them, no parameter is added, the revision is
\* as before, no task is generated and no cluster call made.
C14_CommandFailureAborts ==
  ( /\ ReleaseResolved
    /\ ~NoVersionStage
    /\ host.fails \in 1..Len(VersionCommands) ) =>
    /\ pc = "failed"
    /\ err = "command failed"
    /\ executed = SubSeq(VersionCommands, 1, host.fails)
    /\ o.Revision = << "abc" >>
    /\ NothingGenerated

\* the second of three commands has failed, the third was not run
C14_Witness ==
  /\ ReleaseResolved
  /\ ~NoVersionStage
  /\ Len(VersionCommands) = 3
  /\ host.fails = 2
  /\ Len(executed) = 2
  /\ pc = "failed"

\* the resolver has returned no error: every command it ran succeeded, and
\* so did the look for the VERSION file and its reading
VersionSucceeds ==
  /\ ~NoVersionStage
  /\ host.fails \notin 1..Len(VersionCommands)
  /\ host.fault = ""

\* the text of the VERSION file without the space around it (no drawn file
\* has space inside its text); empty if there is no file
FileText ==
  IF host.file = Nil THEN << >>
  ELSE SelectSeq(Deref(host.file),
                 LAMBDA t : t \notin { " ", "\t", "\n", "\r", "\f", "\\v" })

\* C15: after a release resolution that returned no error, all the commands
\* of the stage have run; if the VERSION file exists and is not blank the
\* parameters are exactly version=<the trimmed text> and the revision is v
\* followed by it; if the file is absent or blank no parameter is added and
\* the revision is as before, and the run goes on to generate the task.
C15_VersionFromFile ==
  (ReleaseResolved /\ VersionSucceeds) =>
    /\ ~(pc = "failed" /\ handed = Nil)
    /\ executed = VersionCommands
    /\ IF FileText # << >>
       THEN /\ o.Results.PipelineParams = << Param("version", FileText) >>
            /\ o.Revision = << "v" >> \o FileText
       ELSE /\ o.Results.PipelineParams = << >>
            /\ o.Revision = << "abc" >>

\* a release run has ended well with the version of a VERSION file that has
\* space before and after its text
C15_Witness ==
  /\ ReleaseResolved
  /\ VersionSucceeds
  /\ pc = "done"
  /\ host.file = Ptr(<< "\t", "2.0.0", " ", "\n" >>)
  /\ o.Revision = << "v", "2.0.0" >>
  /\ Len(executed) >= 2

\* the resolver has run, for a kind that is not release, and was not skipped
PreviewResolved ==
  /\ pc # "version"
  /\ o.PipelineKind # "release"
  /\ ~o.NoSetVersion
  /\ ~o.ViewSteps

\* C16 as stated: for every kind that is not release the resolver runs no
\* command and adds exactly one parameter, preview_version with the value
\* 0.0.0-SNAPSHOT-<branch>-<buildNumber>, and no version parameter.
C16_PreviewFromBranch ==
  PreviewResolved =>
    /\ executed = << >>
    /\ o.Results.PipelineParams =
         << Param("preview_version",
                  << "0.0.0-SNAPSHOT-" >> \o ToStr(o.Branch) \o << "-", "1" >>) >>

\* C16 amended: for every kind that is not release the resolver runs no
\* command; when it is not skipped it adds exactly one parameter,
\* preview_version with the value 0.0.0-SNAPSHOT-<name>-<buildNumber>, where
\* the name is the branch or, if the branch is empty, the revision; when it
\* is skipped (NoSetVersion or ViewSteps) it adds none. It adds no version
\* parameter and leaves the revision as it was.
C16_PreviewVersion ==
  (pc # "version" /\ o.PipelineKind # "release") =>
    /\ executed = << >>
    /\ o.Revision \in { << >>, << "abc" >> }
    /\ o.Results.PipelineParams =
         IF o.NoSetVersion \/ o.ViewSteps THEN << >>
         ELSE << Param("preview_version",
                       << "0.0.0-SNAPSHOT-" >>
                         \o (IF o.Branch = "" THEN o.Revision ELSE << o.Branch >>)
                         \o << "-", "1" >>) >>

\* a pull-request run with no branch and a revision has ended well with the
\* preview version of the revision, on a configuration whose setversion stage
\* has a command
C16_Witness ==
  /\ PreviewResolved
  /\ pc = "done"
  /\ o.PipelineKind = "pullrequest"
  /\ o.Branch = ""
  /\ o.Revision = << "abc" >>
  /\ o.Results.PipelineParams =
       << Param("preview_version", << "0.0.0-SNAPSHOT-", "abc", "-", "1" >>) >>
  /\ InvocationOrder(Deref(CurrentLifecycles.SetVersion).Steps) # << >>

(***************************************************************************)
(* Claims on the setversion stage, the step names and the command text.    *)
(***************************************************************************)
\* the commands of a stage of the configuration, none if it has no such
\* stage
CommandsOfStage(lifecycle) ==
  IF lifecycle = Nil THEN << >> ELSE PreOrderCommands(Deref(lifecycle).Steps)

SetVersionCommands == CommandsOfStage(CurrentLifecycles.SetVersion)

\* the commands of the setup stage, which stands before the setversion
\* stage, and of the stages that stand after it
SetupCommands == CommandsOfStage(CurrentLifecycles.Setup)

LaterCommands ==
  CommandsOfStage(CurrentLifecycles.PreBuild)
    \o CommandsOfStage(CurrentLifecycles.Build)
    \o CommandsOfStage(CurrentLifecycles.PostBuild)
    \o CommandsOfStage(CurrentLifecycles.Promote)

\* the places in the handed task of the steps compiled from the setversion
\* stage: the steps whose name begins with the name of the stage
SetVersionPlaces ==
  { i \in 1..Len(TaskSteps(handed)) : TaskSteps(handed)[i].Name[1] = "setversion" }

\* C21 as stated: when NoSetVersion is set the setversion stage contributes
\* no step to the task, and every other present stage is compiled in its
\* place.
C21_SkippedWhenDisabled ==
  (HandedTask /\ o.NoSetVersion) =>
    /\ SetVersionPlaces = {}
    /\ TaskCommands = SetupCommands \o LaterCommands

\* C21 amended: the setversion stage contributes no step to the task when
\* NoSetVersion is not set; when NoSetVersion is set its steps are compiled
\* in its place, after the steps of the setup stage and before the steps of
\* the prebuild, build, postbuild and promote stages; the other present
\* stages are compiled in their places either way.
C21_SkippedWhenEnabled ==
  HandedTask =>
    LET own == IF o.NoSetVersion THEN SetVersionCommands ELSE << >>
    IN /\ TaskCommands = SetupCommands \o own \o LaterCommands
       /\ SetVersionPlaces = (Len(SetupCommands) + 1)..(Len(SetupCommands) + Len(own))

\* a release task is handed on without the command of the configuration's
\* setversion stage, NoSetVersion not set, with the steps of the stage before
\* it and of a stage after it
C21_Witness ==
  /\ HandedTask
  /\ ~o.NoSetVersion
  /\ SetVersionCommands # << >>
  /\ SetupCommands # << >>
  /\ LaterCommands # << >>
  /\ SetVersionPlaces = {}
  /\ Len(TaskCommands) = Len(SetupCommands) + Len(LaterCommands)

(***************************************************************************)
(* Claims on the order of the version commands.                            *)
(***************************************************************************)
\* the steps of the setversion stage of the release lifecycles
VersionSteps == Deref(ReleaseLifecycles.SetVersion).Steps

\* the steps of a sequence of trees, at every depth
RECURSIVE NodesOf(_)
NodesOf(steps) ==
  IF steps = << >> THEN {}
  ELSE { steps[1] } \cup NodesOf(steps[1].Steps) \cup NodesOf(Tail(steps))

\* a step whose own command the resolver is to run
Eligible(step) ==
  /\ step.Command # << >>
  /\ step.When \notin { << "!prow" >>, << " ", "!prow", "\r", "\n" >> }

\* the commands to run of a step and of the steps below it
Below(step) == { n.Command : n \in { m \in NodesOf(step.Steps) : Eligible(m) } }

Within(step) == Below(step) \cup (IF Eligible(step) THEN { step.Command } ELSE {})

\* the place of a command in the log of the commands run (no two steps of a
\* drawn configuration have the same command)
Place(c) == CHOOSE i \in 1..Len(executed) : executed[i] = c

\* the resolver has run every command of the stage: none of them failed
AllInvoked ==
  /\ ReleaseResolved
  /\ ~NoVersionStage
  /\ host.fails \notin 1..Len(VersionCommands)

\* C26: the commands the release resolver has run are those of the steps of
\* the setversion stage, at any depth, that have a command and are not
\* marked !prow, each once, and of two steps of one list every command of
\* the first and of the steps below it is run before every command of the
\* second and of the steps below it.
C26_EligibleOnceInTreeOrder ==
  AllInvoked =>
    /\ Range(executed) = UNION { Within(n) : n \in Range(VersionSteps) }
    /\ \A i, j \in 1..Len(executed) : i # j => executed[i] # executed[j]
    /\ \A list \in { VersionSteps } \cup { n.Steps : n \in NodesOf(VersionSteps) } :
         \A i, j \in 1..Len(list) :
           i < j => \A c \in Within(list[i]), d \in Within(list[j]) : Place(c) < Place(d)

\* two commands were run of a stage of three steps, one of them marked
\* !prow, with a step below another
C26_Witness ==
  /\ AllInvoked
  /\ Len(executed) = 2
  /\ Cardinality({ n \in NodesOf(VersionSteps) : n.Command # << >> }) = 3
  /\ \E n \in NodesOf(VersionSteps) : n.Steps # << >>
  /\ Len(VersionSteps) = 2

\* C29: for every step with steps below it, every command to run below it
\* has been run, also when the step itself is marked !prow or has no command,
\* and before the step's own command when that is run.
C29_DescendantsFirst ==
  AllInvoked =>
    \A n \in NodesOf(VersionSteps) :
      \A c \in Below(n) :
        /\ c \in Range(executed)
        /\ Eligible(n) => Place(c) < Place(n.Command)

\* the command of a step below a step marked !prow was run and the marked
\* step's own was not, and a step's command was run after the one below it
C29_Witness ==
  /\ AllInvoked
  /\ \E n \in NodesOf(VersionSteps) :
       /\ n.Command # << >>
       /\ n.When = << "!prow" >>
       /\ n.Command \notin Range(executed)
       /\ Below(n) # {}
       /\ Below(n) \subseteq Range(executed)
       /\ \E m \in Range(n.Steps) :
            /\ Eligible(m)
            /\ Below(m) # {}
            /\ \A c \in Below(m) : Place(c) < Place(m.Command)

(***************************************************************************)
(* Claims on the reconciler.                                               *)
(***************************************************************************)
Ended == pc \in { "done", "failed", "panic" }

CallsOf(kind) == SelectSeq(calls, LAMBDA c : c.kind = kind)

StoreOf(kind) ==
  CASE kind = "resource" -> cluster.resources
    [] kind = "task" -> cluster.tasks
    [] kind = "pipeline" -> cluster.pipelines
    [] kind = "run" -> cluster.runs
    [] kind = "structure" -> cluster.structures

\* C3: in no-apply mode no cluster call is ever issued and the store is never
\* touched, with or without a structure record.
C3_NoApplyNoMutation ==
  o.NoApply => (calls = << >> /\ cluster = NoCluster)

\* C3's case: applyPipeline ran to its end in no-apply mode on a graph with
\* resources, tasks and a structure record.
C3_Witness ==
  /\ o.NoApply
  /\ pc = "done"
  /\ ap.structure # Nil
  /\ Len(ap.resources) = 2
  /\ Len(ap.tasks) = 2
  /\ o.Results.PipelineRun # Nil

CallRank(c) ==
  CASE c.kind = "resource" -> 1
    [] c.kind = "task" -> 2
    [] c.kind = "pipeline" -> 3
    [] c.kind = "run" -> 4
    [] c.kind = "structure" -> 5

OkBefore(kind, j) == Len(SelectSeq(SubSeq(calls, 1, j - 1),
                                   LAMBDA c : c.kind = kind /\ c.ok))

\* C4: the calls of one applyPipeline come in the order resources (in list
\* order), tasks (in list order), pipeline, run, structure, and a call of a
\* later group is issued only after every call of the earlier groups
\* succeeded.
C4_ApplyOrder ==
  /\ \A i, j \in 1..Len(calls) : i < j => CallRank(calls[i]) <= CallRank(calls[j])
  /\ Len(CallsOf("resource")) <= Len(ap.resources)
  /\ \A k \in 1..Len(CallsOf("resource")) :
       CallsOf("resource")[k].name = Deref(ap.resources[k]).Name
  /\ Len(CallsOf("task")) <= Len(ap.tasks)
  /\ \A k \in 1..Len(CallsOf("task")) : CallsOf("task")[k].name = ap.tasks[k].Name
  /\ \A j \in 1..Len(calls) :
       /\ CallRank(calls[j]) >= 2 => OkBefore("resource", j) = Len(ap.resources)
       /\ CallRank(calls[j]) >= 3 => OkBefore("task", j) = Len(ap.tasks)
       /\ CallRank(calls[j]) >= 4 => OkBefore("pipeline", j) = 1
       /\ CallRank(calls[j]) >= 5 => OkBefore("run", j) = 1

\* C4's case: a whole apply with two resources, two tasks, a retried run
\* creation and the structure record.
C4_Witness ==
  /\ pc = "done"
  /\ Len(CallsOf("resource")) = 2
  /\ Len(CallsOf("task")) = 2
  /\ Len(CallsOf("run")) = 2
  /\ Len(CallsOf("structure")) = 1

\* C5: a failed cluster call ends applyPipeline with an error: it is the last
\* call issued (a run creation that is retried apart), and every call that
\* succeeded before it has left its object in the store, the run included
\* when the structure record could not be persisted.
C5_FailureAborts ==
  /\ pc = "failed" => err # ""
  /\ \A i \in 1..Len(calls) :
       ~calls[i].ok =>
         \/ i = Len(calls) /\ pc = "failed"
         \/ calls[i].kind = "run" /\ i = Len(calls) /\ pc = "run"
         \/ calls[i].kind = "run" /\ i < Len(calls) /\ calls[i + 1].kind = "run"
  /\ \A i \in 1..Len(calls) :
       calls[i].ok => Exists(StoreOf(calls[i].kind), calls[i].name)

\* C5's case: the structure record could not be persisted after the run was
\* created.
C5_Witness ==
  /\ pc = "failed"
  /\ Len(calls) >= 1
  /\ calls[Len(calls)].kind = "structure"
  /\ ~calls[Len(calls)].ok
  /\ Exists(cluster.runs, Deref(ap.run).Name)

\* C6: within one applyPipeline only the run creation is attempted more than
\* once; it is attempted until it succeeds or the retry duration is used up,
\* and then applyPipeline fails; and every applyPipeline that starts ends.
C6_OnlyRunRetried ==
  /\ [](/\ \A i, j \in 1..Len(calls) :
             (i # j /\ calls[i].kind = calls[j].kind /\ calls[i].name = calls[j].name)
               => calls[i].kind = "run"
        /\ Len(CallsOf("run")) <= o.Duration + 1
        /\ (pc = "failed" /\ calls # << >> /\ calls[Len(calls)].kind = "run"
              /\ ~calls[Len(calls)].ok)
             => Len(CallsOf("run")) = o.Duration + 1
        /\ \A i \in 1..(Len(CallsOf("run")) - 1) : ~CallsOf("run")[i].ok)
  /\ (pc = "start") ~> Ended

\* C6's case: the run creation failed until the retry duration was used up.
C6_Witness ==
  /\ pc = "failed"
  /\ o.Duration = MaxDuration
  /\ Len(CallsOf("run")) = MaxDuration + 1

GraphNames(kind) ==
  LET graph == Deref(handed)
  IN CASE kind = "resource" ->
            { Deref(graph.resources[i]).Name :
                i \in { k \in 1..Len(graph.resources) : graph.resources[k] # Nil } }
       [] kind = "task" -> { graph.tasks[i].Name : i \in 1..Len(graph.tasks) }
       [] kind = "pipeline" -> { graph.pipeline.Name }
       [] kind = "run" -> { graph.pipeline.Name }
       [] kind = "structure" ->
            IF graph.structure = Nil THEN {} ELSE { graph.pipeline.Name }

C8_ReferentialClosure ==
  ap.run # Nil =>
    LET run == Deref(ap.run)
        pipelineTasks == Range(ap.pipeline.Spec.Tasks)
        tasks == Range(ap.tasks)
        resources == { Deref(r) : r \in { x \in Range(ap.resources) : x # Nil } }
    IN /\ \A pt \in pipelineTasks : \E t \in tasks : t.Name = pt.TaskRef.Name
       /\ \A b \in Range(run.Spec.Resources) :
            \E r \in resources : r.Name = b.ResourceRef.Name
       /\ \A pt \in pipelineTasks : \A t \in tasks :
            t.Name = pt.TaskRef.Name =>
              \A declared \in Range(t.Spec.Inputs.Resources) :
                \E bound \in Range(pt.Resources.Inputs) : bound.Name = declared.Name
       /\ run.Spec.PipelineRef.Name = ap.pipeline.Name

(***************************************************************************)
(* SpecEnv: modifyEnvVars over every small step environment and injection  *)
(* context, applied to the same container up to MaxInject times.           *)
(***************************************************************************)
\* the variables a step may declare: the reserved one, two the injector
\* derives, the upper-cased version parameter and one of the user's own
DeclaredEnvVars ==
  { EnvVar(n, << "x" >>) :
      n \in { "JENKINS_URL", "DOCKER_REGISTRY", "JX_BATCH_MODE", "VERSION", "FOO" } }
    \cup { EnvVar("FOO", << "y" >>) }

RECURSIVE SeqsUpTo(_, _)
SeqsUpTo(S, n) ==
  IF n = 0 THEN { << >> }
  ELSE LET shorter == SeqsUpTo(S, n - 1)
       IN shorter \cup { Append(s, x) : s \in shorter, x \in S }

\* the parameter lists setVersionOnReleasePipelines leaves in the Results
ParamLists ==
  { << >>,
    << Param("version", << "1.2.3" >>) >>,
    << Param("preview_version", << "0.0.0-SNAPSHOT-", "master", "-", "1" >>) >>,
    << Param("version", << "1.2.3" >>), Param("version", << "1.2.3" >>) >> }

GitInfos ==
  { Nil, Ptr(DefaultGitInfo),
    Ptr([ DefaultGitInfo EXCEPT !.Organisation = "", !.CloneURL = "" ]) }

InitEnv ==
  /\ \E env \in SeqsUpTo(DeclaredEnvVars, MaxEnvLen) :
       /\ container = [ NoContainer EXCEPT !.Env = env ]
       /\ envIn = env
  /\ \E kind \in { "", "release" }, context \in { "", "ctx" },
        git \in GitInfos, branch \in { "", "master" }, params \in ParamLists :
       o = [ DefaultOptions EXCEPT
               !.PipelineKind = kind, !.Context = context, !.gitInfo = git,
               !.Branch = branch, !.DockerRegistry = "reg",
               !.Results = [ NoResults EXCEPT !.PipelineParams = params ] ]
  /\ pipelineConfig = Nil
  /\ cluster = NoCluster
  /\ pc = "inject"
  /\ err = ""
  /\ ap = NoFrame
  /\ calls = << >>
  /\ runs = << >>
  /\ handed = Nil
  /\ executed = << >>
  /\ host = NoHost

\* o.modifyEnvVars(&c): the container's environment is replaced
ModifyEnvVars ==
  /\ pc = "inject"
  /\ Len(runs) < MaxInject
  /\ container' = modifyEnvVars(container, o)
  /\ runs' = Append(runs, container'.Env)
  /\ UNCHANGED <<o, pipelineConfig, cluster, pc, err, ap, calls, handed, envIn,
                 executed, host>>

NextEnv == ModifyEnvVars

SpecEnv == InitEnv /\ [][NextEnv]_vars

(***************************************************************************)
(* Claims on the environment injector.                                     *)
(***************************************************************************)
Names(envVars) == { envVars[i].Name : i \in 1..Len(envVars) }

DerivedOrder ==
  << "DOCKER_REGISTRY", "PIPELINE_KIND", "PIPELINE_CONTEXT", "SOURCE_URL",
     "REPO_OWNER", "REPO_NAME", "JOB_NAME", "BRANCH_NAME", "JX_BATCH_MODE" >>

\* the place of an appended name in the fixed order: the derived variables,
\* then the parameters in their order; 0 for a name that has no place
OrderOf(name, params) ==
  IF \E i \in 1..Len(DerivedOrder) : DerivedOrder[i] = name
  THEN CHOOSE i \in 1..Len(DerivedOrder) : DerivedOrder[i] = name
  ELSE IF \E i \in 1..Len(params) : ToUpper(params[i].Name) = name
  THEN Len(DerivedOrder)
         + (CHOOSE i \in 1..Len(params) :
              /\ ToUpper(params[i].Name) = name
              /\ \A j \in 1..(i - 1) : ToUpper(params[j].Name) # name)
  ELSE 0

Declared(envVars) == SelectSeq(envVars, LAMBDA e : e.Name # "JENKINS_URL")

\* C9: after injection the step's declared variables (JENKINS_URL apart)
\* come first, with their values and in their order, and what follows them
\* are variables whose names the step did not declare, in the fixed order
\* DOCKER_REGISTRY .. JX_BATCH_MODE, then the upper-cased parameters.
C9_FirstWriterWins ==
  Len(runs) >= 1 =>
    LET out == runs[1]
        kept == Declared(envIn)
        k == Len(kept)
        params == o.Results.PipelineParams
    IN /\ Len(out) >= k
       /\ SubSeq(out, 1, k) = kept
       /\ \A i \in (k + 1)..Len(out) :
            /\ out[i].Name \notin Names(envIn)
            /\ OrderOf(out[i].Name, params) > 0
       /\ \A i, j \in (k + 1)..Len(out) :
            i < j => OrderOf(out[i].Name, params) < OrderOf(out[j].Name, params)

\* C9's case: a step that declares DOCKER_REGISTRY and a variable of its own
\* was injected, and derived variables and a parameter were appended.
C9_Witness ==
  /\ Len(runs) >= 1
  /\ { "DOCKER_REGISTRY", "FOO" } \subseteq Names(envIn)
  /\ Len(envIn) = 2
  /\ Len(runs[1]) >= 5
  /\ "VERSION" \in Names(runs[1])

\* C10: a second injection leaves the environment as the first one made it,
\* and no name the injector appended occurs twice.
C10_Idempotent ==
  /\ \A n \in 2..Len(runs) : runs[n] = runs[1]
  /\ Len(runs) >= 1 =>
       \A i \in (Len(Declared(envIn)) + 1)..Len(runs[1]) :
          Cardinality({ j \in 1..Len(runs[1]) : runs[1][j].Name = runs[1][i].Name }) = 1

\* C10's case: the injector ran twice over a step that declared the reserved
\* variable, with a parameter list that names version twice.
C10_Witness ==
  /\ Len(runs) >= 2
  /\ "JENKINS_URL" \in Names(envIn)
  /\ Len(o.Results.PipelineParams) = 2
  /\ Len(runs[2]) >= 4

\* C24: after the injector has run, once or again, the environment of the
\* container has no variable called JENKINS_URL, whatever the step declared
\* and whatever parameters the version resolver left.
C24_NoReservedVariable ==
  Len(runs) >= 1 =>
    /\ \A i \in 1..Len(container.Env) : container.Env[i].Name # "JENKINS_URL"
    /\ \A n \in 1..Len(runs) : \A i \in 1..Len(runs[n]) :
         runs[n][i].Name # "JENKINS_URL"

\* the injector ran over a step that declared the reserved variable twice,
\* with a parameter in the Results
C24_Witness ==
  /\ Len(runs) >= 1
  /\ Len(envIn) = 2
  /\ \A i \in 1..2 : envIn[i].Name = "JENKINS_URL"
  /\ Len(o.Results.PipelineParams) >= 1
  /\ Len(container.Env) >= 3

(***************************************************************************)
(* Claims on what the reconciler is handed and what it leaves behind.      *)
(***************************************************************************)
\* the graph handed to applyPipeline comes from the declarative branch
DeclarativeHanded == handed # Nil /\ Deref(handed).structure # Nil

\* some owner reference of the object names a pipeline of the cluster, with
\* the UID the server gave it
OwnedByPipeline(obj) ==
  \E i \in 1..Len(obj.OwnerReferences) : \E p \in cluster.pipelines :
     /\ obj.OwnerReferences[i].Kind = "Pipeline"
     /\ obj.OwnerReferences[i].Name = p.Name
     /\ obj.OwnerReferences[i].UID = p.UID

\* C25 as stated: every task applied to the cluster and every run created
\* in it holds an owner reference that names the applied pipeline with its
\* server-assigned UID, on the declarative and on the build-pack path.
C25_OwnedByPipeline ==
  /\ \A t \in cluster.tasks : OwnedByPipeline(t)
  /\ \A r \in cluster.runs : OwnedByPipeline(r)

\* C28 as stated: the declarative branch hands over exactly two resources
\* that are both present, the git source resource with its url and revision
\* and then the image resource temp-ordering-resource, for every input; the
\* build-pack branch hands over no resource of that name.
C28_SourceThenOrdering ==
  handed # Nil =>
    LET resources == Deref(handed).resources
    IN IF DeclarativeHanded
       THEN /\ Len(resources) = 2
            /\ \A i \in 1..2 : resources[i] # Nil
            /\ Deref(resources[1]).Spec.Type = "git"
            /\ { Deref(resources[1]).Spec.Params[i].Name :
                   i \in 1..Len(Deref(resources[1]).Spec.Params) }
                 = { "revision", "url" }
            /\ Deref(resources[2]).Name = << "temp-ordering-resource" >>
            /\ Deref(resources[2]).Spec.Type = "image"
       ELSE \A i \in 1..Len(resources) :
              resources[i] # Nil
                => Deref(resources[i]).Name # << "temp-ordering-resource" >>

\* C23 as stated: when applyPipeline has ended well, in no-apply mode as
\* after a successful apply, the structure record in the Results carries the
\* name of the run, a reference to the run, a reference to the pipeline and
\* an owner reference naming the pipeline.
C23_ResultsAsApplied ==
  (pc = "done" /\ o.Results.Structure # Nil) =>
    LET structure == Deref(o.Results.Structure)
        run == Deref(o.Results.PipelineRun)
        pipeline == Deref(o.Results.Pipeline)
    IN /\ structure.Name = run.Name
       /\ structure.PipelineRunRef = Ptr(run.Name)
       /\ structure.PipelineRef = Ptr(pipeline.Name)
       /\ \E i \in 1..Len(structure.OwnerReferences) :
            /\ structure.OwnerReferences[i].Kind = "Pipeline"
            /\ structure.OwnerReferences[i].Name = pipeline.Name

\* the same on the runs that applied: what a successful apply stores
C23_AppliedResults == ~o.NoApply => C23_ResultsAsApplied

(***************************************************************************)
(* Claims on the names of the compiled steps.                              *)
(***************************************************************************)
\* C30 as stated: in the task compiled from the stages of the build packs no
\* two steps have the same name, whatever the lifecycles are, also when a
\* stage holds steps with a name of their own next to steps named after the
\* counter.
C30_StepNamesDistinct ==
  (HandedTask /\ pc # "compile") =>
    \A i, j \in 1..Len(TaskSteps(handed)) :
      i # j => TaskSteps(handed)[i].Name # TaskSteps(handed)[j].Name

(***************************************************************************)
(* Claims on the command text and the working directory of a compiled step. *)
(***************************************************************************)
\* the step drawn for the build stage
BuildStep ==
  Deref(Deref(Deref(pipelineConfig).Pipelines.PullRequest).Build).Steps[1]

\* the steps with a command, a step before its children
RECURSIVE Leaves(_)
Leaves(steps) ==
  IF steps = << >> THEN << >>
  ELSE (IF steps[1].Command # << >> THEN << steps[1] >> ELSE << >>)
         \o Leaves(steps[1].Steps) \o Leaves(Tail(steps))

\* a task of the drawn step and its child is handed on
StepsHanded == handed # Nil /\ pc # "compile"

Holds(s, part) ==
  \E i \in 1..(Len(s) - Len(part) + 1) : SubSeq(s, i, i + Len(part) - 1) = part

\* the forms of the old pipelines: an escaped dollar, the export text and the
\* three reads of a VERSION file
LegacyForms ==
  { Chars("\\$"), Chars(ExportText), Chars("$(cat VERSION)"),
    Chars("$(cat ../VERSION)"), Chars("$(cat ../../VERSION)") }

\* C22 as stated: the command text of every compiled step holds none of the
\* forms of the old pipelines, whatever the command of the step was; the
\* export text before npm test leaves npm test, and echo of the VERSION file
\* becomes echo of the VERSION variable.
C22_NoLegacyForm ==
  StepsHanded =>
    \A i \in 1..Len(TaskSteps(handed)) :
      LET command == Leaves(<< BuildStep >>)[i].Command
          text == TaskSteps(handed)[i].Args[2]
      IN /\ \A form \in LegacyForms : ~Holds(text, form)
         /\ command = Chars(ExportText \o "npm test") => text = Chars("npm test")
         /\ command = Chars("echo $(cat VERSION)") => text = Chars("echo ${VERSION}")

\* the directory a step's directory stands for: the placeholders for the
\* name and the organisation of the repository are filled in, a relative
\* path is joined to the workspace directory, an absolute one is left
ResolvedDir(dir) ==
  LET named == Replace(Replace(dir, << "REPLACE_ME_APP_NAME" >>,
                               ToStr(Deref(o.gitInfo).Name), -1),
                       << "REPLACE_ME_ORG" >>,
                       ToStr(Deref(o.gitInfo).Organisation), -1)
  IN IF IsAbs(named) THEN named ELSE Join(getWorkspaceDir(o), named)

\* the container and the working directory of the steps with a command, a
\* step before its children, when every step takes its own container and its
\* own directory where it has one and its parent's otherwise
RECURSIVE OwnOrInherited(_, _, _)
OwnOrInherited(steps, containerName, dir) ==
  IF steps = << >> THEN << >>
  ELSE LET step == steps[1]
           box == IF step.Container # "" THEN step.Container ELSE containerName
           own == IF step.Dir # << >> THEN step.Dir ELSE dir
       IN (IF step.Command # << >>
           THEN << [ Container |-> box, WorkingDir |-> ResolvedDir(own) ] >>
           ELSE << >>)
            \o OwnOrInherited(step.Steps, box, own)
            \o OwnOrInherited(Tail(steps), containerName, dir)

\* C27 as stated: every compiled step works in the directory its own Dir
\* stands for when it has one, also when it names a Container, and in the
\* directory of its parent otherwise, and runs in its own container when it
\* names one and in its parent's otherwise.
C27_OwnDirFirst ==
  StepsHanded =>
    LET claimed == OwnOrInherited(<< BuildStep >>,
                                  Deref(pipelineConfig).Agent.Container, << >>)
    IN /\ Len(TaskSteps(handed)) = Len(claimed)
       /\ \A i \in 1..Len(claimed) :
            /\ TaskSteps(handed)[i].WorkingDir = claimed[i].WorkingDir
            /\ TaskSteps(handed)[i].Image = claimed[i].Container

\* the same for the steps none of which names a Container together with a
\* Dir: there the directories are as the claim has them
C27_WithoutContainer ==
  (\A s \in { BuildStep, BuildStep.Steps[1] } : s.Container = "" \/ s.Dir = << >>)
    => C27_OwnDirFirst

====
